---- MODULE Spec2Model ----
(***************************************************************************)
(* ChainForensics bounded graph traversal: UTXOTracer.trace_forward,       *)
(* UTXOTracer.trace_backward (app/core/tracer.py) and                      *)
(* KYCPrivacyTracer.trace_kyc_withdrawal (app/core/kyc_trace.py).          *)
(*                                                                         *)
(* One behaviour is one call of one of the three traversals against a      *)
(* mocked node RPC (transaction records, unspent set) and a mocked address *)
(* index (address histories).  Every loop iteration of the traversal is    *)
(* one action; the outcome of each collaborator call made in the iteration *)
(* (transaction found / not found, gettxout unspent / spent / raising,     *)
(* address-index lookup answering / failing, time spent waiting) is a      *)
(* nondeterministic input of that action.                                  *)
(*                                                                         *)
(* Conventions: Python None for a string is "", for an index -1.  Output   *)
(* values are kept in satoshis.  Output indexes are 0-based as in the      *)
(* source; TLA+ sequences are 1-based, hence the +1 when indexing.         *)
(* Confidences are fixed-point numbers with CONF_ONE = 1.0.                *)
(***************************************************************************)
EXTENDS Integers, Sequences, FiniteSets, TLC

VARIABLES
    op,                 \* which traversal this behaviour runs
    args,               \* the arguments of the call
    pc,                 \* "start" | "loop" | "returned" | "raised"
    chain,              \* which mocked chain the collaborators serve (fixed during a run)
    max_depth,          \* effective max_depth of the run
    electrs,            \* TRUE when _get_electrs() returned a client
    elapsed,            \* seconds since start_time
    tx_cache,           \* self._tx_cache (set of cached txids)
    queue, visited, tx_count,
    consecutive_electrs_failures, electrs_disabled,
    lookups,            \* outcomes of the address-index lookups issued so far
    nodes, edges, unspent_endpoints, coinbase_origins, coinjoin_txids,
    total_value_traced_sats, warnings, hit_limit,
    destinations,       \* KYC: ProbableDestination list
    total_untraceable_sats, total_traced_sats,
    start_value,        \* KYC: value of the seed output
    electrs_failures,   \* KYC: self._electrs_failures
    overall_privacy_score, privacy_rating,
    peeling,            \* what detect_peeling_chain returned for the trace
    prox,               \* locals and result of analyze_exchange_proximity
    detector,           \* CoinJoinDetector: its config and the calls made
    fulcrum,            \* FulcrumClient singleton: connection and requests
    session,            \* which call on the tracer singleton this is, and
                        \* what its cache held when the call began
    kyc_calls,          \* two trace_kyc_withdrawal coroutines on the KYC
                        \* tracer singleton and its _electrs_failures
    job,                \* an AnalysisJob row and its background task
    last                \* what the latest loop iteration did (observation)

vars == <<op, args, pc, chain, max_depth, electrs, elapsed, tx_cache, queue, visited,
          tx_count, consecutive_electrs_failures, electrs_disabled, lookups,
          nodes, edges, unspent_endpoints, coinbase_origins, coinjoin_txids,
          total_value_traced_sats, warnings, hit_limit, destinations,
          total_untraceable_sats, total_traced_sats, start_value,
          electrs_failures, overall_privacy_score, privacy_rating, peeling,
          prox, detector, fulcrum, session, kyc_calls, job, last>>

----------------------------------------------------------------------------
(* Program constants                                                       *)

MAX_TRANSACTIONS_PER_TRACE == 200
MAX_QUEUE_SIZE == 1000
MAX_CONSECUTIVE_ELECTRS_FAILURES == 3
MAX_TRACE_TIME_SECONDS == 60
MAX_TRACE_DEPTH == 50

(* Bounds of the model                                                     *)

\* largest max_depth argument tried for trace_forward / trace_backward
MaxDepthArg == 3
\* seconds one slow iteration (a collaborator call near its timeout) takes
SlowCall == 31
\* the clock is not advanced past this value
MaxElapsed == 93
\* how many transactions one client hands to the CoinJoin detector
MaxCalls == 3
\* how many address-index requests are followed on the shared connection
MaxRequests == 3
\* how many traversals are run, one after the other, on a tracer singleton
MaxTraversals == 2
\* how many lookups of one KYC trace fail with a timeout or an exception
MaxFailedLookups == 2
\* how many DELETE requests are sent for one job
MaxCancelRequests == 2

----------------------------------------------------------------------------
(* Transaction records and the mocked collaborators                        *)

Out(v, a) == [value |-> v, address |-> a]
In(t, o, a) == [coinbase |-> FALSE, txid |-> t, vout |-> o, address |-> a]
CoinbaseIn == [coinbase |-> TRUE, txid |-> "", vout |-> -1, address |-> ""]
Tx(vin, vout) == [vin |-> vin, vout |-> vout]

Min(a, b) == IF a < b THEN a ELSE b
Max(a, b) == IF a > b THEN a ELSE b

\* collections.Counter(values) followed by max(value_counts.values())
CountOf(vouts, v) == Cardinality({i \in DOMAIN vouts : vouts[i].value = v})
ValueCounts(vouts) ==
    {CountOf(vouts, v) : v \in {vouts[i].value : i \in DOMAIN vouts}}
MaxEqual(vouts) ==
    IF vouts = <<>> THEN 0
    ELSE CHOOSE m \in ValueCounts(vouts) : \A c \in ValueCounts(vouts) : c <= m

\* depth_preset arguments tried for trace_kyc_withdrawal
PresetArgs == {"quick", "standard", "bogus"}

\* A cyclic graph in which two outputs of B are consumed by the same
\* transaction C, and C's first output is consumed by A again.
CycleChain ==
    [txs |-> [t \in {"A", "B", "C"} |->
                CASE t = "A" -> Tx(<<In("C", 0, "c0")>>, <<Out(100, "a0")>>)
                  [] t = "B" -> Tx(<<In("A", 0, "a0")>>,
                                   <<Out(50, "b0"), Out(50, "b1")>>)
                  [] t = "C" -> Tx(<<In("B", 0, "b0"), In("B", 1, "b1")>>,
                                   <<Out(60, "c0"), Out(40, "")>>)],
     history |-> [a \in {"a0", "b0", "b1", "c0"} |->
                CASE a = "a0" -> <<"A", "B">>
                  [] a = "b0" -> <<"B", "C">>
                  [] a = "b1" -> <<"B", "C">>
                  [] a = "c0" -> <<"C", "A">>],
     unspent |-> {},
     starts |-> {<<"A", 0>>, <<"C", 0>>, <<"A", 1>>, <<"Z", 0>>},
     dest |-> "a0",
     depths |-> (-1)..MaxDepthArg,
     presets |-> PresetArgs]

\* A coinbase funds A; B fans out into four outputs that C consumes.
FanChain ==
    [txs |-> [t \in {"A", "B", "C"} |->
                CASE t = "A" -> Tx(<<CoinbaseIn>>, <<Out(100, "a0")>>)
                  [] t = "B" -> Tx(<<In("A", 0, "a0")>>,
                                   <<Out(10, "b0"), Out(20, "b1"),
                                     Out(30, "b2"), Out(40, "b3")>>)
                  [] t = "C" -> Tx(<<In("B", 0, "b0"), In("B", 1, "b1"),
                                     In("B", 2, "b2"), In("B", 3, "b3")>>,
                                   <<Out(99, "c0")>>)],
     history |-> [a \in {"a0", "b0", "b1", "b2", "b3", "c0"} |->
                CASE a = "a0" -> <<"A", "B">>
                  [] a = "c0" -> <<"C">>
                  [] OTHER -> <<"B", "C">>],
     unspent |-> {<<"C", 0>>},
     starts |-> {<<"A", 0>>, <<"C", 0>>},
     dest |-> "a0",
     depths |-> (-1)..MaxDepthArg,
     presets |-> PresetArgs]

\* An exchange withdrawal X that is mixed: W1 (5 equal outputs), then J (six
\* outputs, five of them equal, three inputs), then W2 (5 equal outputs) and
\* WS (ten equal outputs); V2 has ten inputs and ten outputs, five equal.
Outs(n, v, prefix) == [i \in 1..n |-> Out(v, prefix[i])]
Ins(n, first) == [i \in 1..n |-> IF i = 1 THEN first ELSE In("Q", i, "")]
MixChain ==
    [txs |-> [t \in {"X", "W1", "J", "W2", "WS", "V2"} |->
                CASE t = "X" -> Tx(<<In("P", 0, "")>>,
                                   <<Out(500000, "d0"), Out(700000, "xc")>>)
                  [] t = "W1" -> Tx(Ins(5, In("X", 0, "d0")),
                                    Outs(5, 100000, <<"w0", "w1", "w2", "w3", "w4">>))
                  [] t = "J" -> Tx(Ins(3, In("W1", 0, "w0")),
                                   Outs(5, 20000, <<"j0", "j1", "j2", "j3", "j4">>)
                                      \o <<Out(7000, "w0")>>)
                  [] t = "W2" -> Tx(Ins(5, In("J", 0, "j0")),
                                    Outs(5, 4000, <<"v0", "v1", "v2", "v3", "v4">>))
                  [] t = "WS" -> Tx(Ins(1, In("J", 5, "w0")),
                                    Outs(10, 600, <<"s0", "s1", "s2", "s3", "s4",
                                                    "s5", "s6", "s7", "s8", "s9">>))
                  [] t = "V2" -> Tx(Ins(10, In("W1", 1, "w1")),
                                    Outs(5, 9000, <<"u0", "u1", "u2", "u3", "u4">>)
                                      \o [i \in 1..5 |-> Out(9000 + i, "")])],
     history |-> [a \in {"d0", "w0", "w1", "j0"} |->
                CASE a = "d0" -> <<"X", "W1">>
                  [] a = "w0" -> <<"W1", "J", "WS">>
                  [] a = "w1" -> <<"V2", "W1">>
                  [] a = "j0" -> <<"J", "W2">>],
     unspent |-> {<<"W1", 2>>, <<"W1", 3>>, <<"W1", 4>>,
                  <<"J", 1>>, <<"J", 2>>, <<"J", 3>>, <<"J", 4>>}
                 \cup {<<"V2", i>> : i \in 0..8},
     starts |-> {<<"X", 0>>},
     dest |-> "d0",
     depths |-> (-1)..MaxDepthArg,
     presets |-> PresetArgs]

\* A plain chain of five single-output payments.
LineChain ==
    [txs |-> [t \in {"L0", "L1", "L2", "L3", "L4"} |->
                CASE t = "L0" -> Tx(<<CoinbaseIn>>, <<Out(100000, "l0")>>)
                  [] t = "L1" -> Tx(<<In("L0", 0, "l0")>>, <<Out(90000, "l1")>>)
                  [] t = "L2" -> Tx(<<In("L1", 0, "l1")>>, <<Out(80000, "l2")>>)
                  [] t = "L3" -> Tx(<<In("L2", 0, "l2")>>, <<Out(70000, "l3")>>)
                  [] t = "L4" -> Tx(<<In("L3", 0, "l3")>>, <<Out(5000, "l4")>>)],
     history |-> [a \in {"l0", "l1", "l2", "l3"} |->
                CASE a = "l0" -> <<"L0", "L1">>
                  [] a = "l1" -> <<"L1", "L2">>
                  [] a = "l2" -> <<"L2", "L3">>
                  [] a = "l3" -> <<"L3", "L4">>],
     unspent |-> {<<"L4", 0>>},
     starts |-> {<<"L0", 0>>, <<"L4", 0>>},
     dest |-> "l0",
     depths |-> (-1)..MaxDepthArg,
     presets |-> PresetArgs]

\* A spend-down: each of P1..P5 pays about 100000 and hands the larger rest
\* on to the next transaction; the payments and P5's change are unspent.
PeelChain ==
    [txs |-> [t \in {"P0", "P1", "P2", "P3", "P4", "P5"} |->
                CASE t = "P0" -> Tx(<<In("X", 0, "")>>, <<Out(1000000, "p0")>>)
                  [] t = "P1" -> Tx(<<In("P0", 0, "p0")>>,
                                   <<Out(100000, "q1"), Out(900000, "p1")>>)
                  [] t = "P2" -> Tx(<<In("P1", 1, "p1")>>,
                                   <<Out(790000, "p2"), Out(110000, "q2")>>)
                  [] t = "P3" -> Tx(<<In("P2", 0, "p2")>>,
                                   <<Out(100000, "q3"), Out(690000, "p3")>>)
                  [] t = "P4" -> Tx(<<In("P3", 1, "p3")>>,
                                   <<Out(90000, "q4"), Out(600000, "p4")>>)
                  [] t = "P5" -> Tx(<<In("P4", 1, "p4")>>,
                                   <<Out(500000, "p5"), Out(100000, "q5")>>)],
     history |-> [a \in {"p0", "p1", "p2", "p3", "p4"} |->
                CASE a = "p0" -> <<"P0", "P1">>
                  [] a = "p1" -> <<"P1", "P2">>
                  [] a = "p2" -> <<"P2", "P3">>
                  [] a = "p3" -> <<"P3", "P4">>
                  [] a = "p4" -> <<"P4", "P5">>],
     unspent |-> {<<"P1", 0>>, <<"P2", 1>>, <<"P3", 0>>, <<"P4", 0>>,
                  <<"P5", 0>>, <<"P5", 1>>},
     starts |-> {<<"P0", 0>>, <<"P2", 0>>, <<"P3", 1>>},
     dest |-> "p0",
     depths |-> {2, 3, 5},
     presets |-> {"standard"}]

\* A spend-down with uneven payments: U1..U4 pay 10000, 190000, 100000 and
\* 100000, so that exactly half of the four payments lie within 50% of
\* their average (100000); U4's change is unspent.
UnevenChain ==
    [txs |-> [t \in {"U0", "U1", "U2", "U3", "U4"} |->
                CASE t = "U0" -> Tx(<<In("X", 0, "")>>, <<Out(1000000, "v0")>>)
                  [] t = "U1" -> Tx(<<In("U0", 0, "v0")>>,
                                   <<Out(10000, "w1"), Out(990000, "v1")>>)
                  [] t = "U2" -> Tx(<<In("U1", 1, "v1")>>,
                                   <<Out(800000, "v2"), Out(190000, "w2")>>)
                  [] t = "U3" -> Tx(<<In("U2", 0, "v2")>>,
                                   <<Out(100000, "w3"), Out(700000, "v3")>>)
                  [] t = "U4" -> Tx(<<In("U3", 1, "v3")>>,
                                   <<Out(100000, "w4"), Out(600000, "v4")>>)],
     history |-> [a \in {"v0", "v1", "v2", "v3"} |->
                CASE a = "v0" -> <<"U0", "U1">>
                  [] a = "v1" -> <<"U1", "U2">>
                  [] a = "v2" -> <<"U2", "U3">>
                  [] a = "v3" -> <<"U3", "U4">>],
     unspent |-> {<<"U1", 0>>, <<"U2", 1>>, <<"U3", 0>>, <<"U4", 0>>,
                  <<"U4", 1>>},
     starts |-> {<<"U0", 0>>},
     dest |-> "v0",
     depths |-> {3, 4},
     presets |-> {"standard"}]

\* A spend-down that carries data: each of N1..N3 has a zero-value output
\* without address (OP_RETURN, which gettxout never reports as unspent) and
\* hands the rest on to the next transaction.
DataChain ==
    [txs |-> [t \in {"N0", "N1", "N2", "N3"} |->
                CASE t = "N0" -> Tx(<<In("X", 0, "")>>, <<Out(1000000, "n0")>>)
                  [] t = "N1" -> Tx(<<In("N0", 0, "n0")>>,
                                   <<Out(0, ""), Out(990000, "n1")>>)
                  [] t = "N2" -> Tx(<<In("N1", 1, "n1")>>,
                                   <<Out(0, ""), Out(980000, "n2")>>)
                  [] t = "N3" -> Tx(<<In("N2", 1, "n2")>>,
                                   <<Out(0, ""), Out(970000, "n3")>>)],
     history |-> [a \in {"n0", "n1", "n2"} |->
                CASE a = "n0" -> <<"N0", "N1">>
                  [] a = "n1" -> <<"N1", "N2">>
                  [] a = "n2" -> <<"N2", "N3">>],
     unspent |-> {<<"N3", 1>>},
     starts |-> {<<"N0", 0>>},
     dest |-> "n0",
     depths |-> {3},
     presets |-> {"standard"}]

\* An exchange (address ex1, funded by E0) pays u1 in W1 and keeps its
\* change; W2 mixes u1's coins into three equal outputs u2, u3, u4; u2
\* deposits into another exchange (ex2) in D3.
ProxChain ==
    [txs |-> [t \in {"E0", "W1", "W2", "D3"} |->
                CASE t = "E0" -> Tx(<<In("X", 0, "")>>, <<Out(5000, "ex1")>>)
                  [] t = "W1" -> Tx(<<In("E0", 0, "ex1")>>,
                                   <<Out(3000, "u1"), Out(2000, "ex1")>>)
                  [] t = "W2" -> Tx(<<In("W1", 0, "u1"), In("Y", 0, "")>>,
                                   <<Out(1000, "u2"), Out(1000, "u3"),
                                     Out(1000, "u4")>>)
                  [] t = "D3" -> Tx(<<In("W2", 0, "u2")>>, <<Out(900, "ex2")>>)],
     history |-> [a \in {"ex1", "u1", "u2", "u3", "u4", "ex2"} |->
                CASE a = "ex1" -> <<"E0", "W1">>
                  [] a = "u1" -> <<"W1", "W2">>
                  [] a = "u2" -> <<"W2", "D3">>
                  [] a = "ex2" -> <<"D3">>
                  [] OTHER -> <<"W2">>],
     unspent |-> {<<"W1", 1>>, <<"W2", 1>>, <<"W2", 2>>, <<"D3", 0>>},
     starts |-> {<<"W1", 0>>},
     dest |-> "u1",
     depths |-> {2},
     presets |-> {"standard"}]

\* A spend-down as long as the detector's walk may get: N0 is spent by N1,
\* and each of N1..N20 pays 1000 (output 0, unspent) and hands the rest
\* (output 1, paid to an address named after the transaction) to the next.
LongNames ==
    <<"N0", "N1", "N2", "N3", "N4", "N5", "N6", "N7", "N8", "N9", "N10",
      "N11", "N12", "N13", "N14", "N15", "N16", "N17", "N18", "N19", "N20">>
LongIndex(t) == CHOOSE k \in DOMAIN LongNames : LongNames[k] = t
LongChain ==
    [txs |-> [t \in {LongNames[k] : k \in DOMAIN LongNames} |->
                IF t = "N0" THEN Tx(<<In("X", 0, "")>>, <<Out(50000, "N0")>>)
                ELSE Tx(<<In(LongNames[LongIndex(t) - 1],
                             IF t = "N1" THEN 0 ELSE 1,
                             LongNames[LongIndex(t) - 1])>>,
                        <<Out(1000, "pay"),
                          Out(50000 - 1000 * (LongIndex(t) - 1), t)>>)],
     history |-> [a \in {LongNames[k] : k \in 1..(Len(LongNames) - 1)} |->
                    <<a, LongNames[LongIndex(a) + 1]>>],
     unspent |-> {<<LongNames[k], 0>> : k \in 2..Len(LongNames)}
                    \cup {<<LongNames[Len(LongNames)], 1>>},
     starts |-> {<<"N0", 0>>},
     dest |-> "N0",
     depths |-> {Len(LongNames) - 1},
     presets |-> {"standard"}]

\* A withdrawal S whose output is spent by F, a transaction with more equal
\* outputs than the queue may hold, all of them unspent; and M, which
\* spends outputs of more transactions (named "1", "2", ..., unknown to the
\* node) than the queue may hold.
WideOuts == MAX_QUEUE_SIZE + 2
WideChain ==
    [txs |-> [t \in {"S", "F", "M"} |->
                CASE t = "S" -> Tx(<<In("P", 0, "")>>, <<Out(1000, "s0")>>)
                  [] t = "M" -> Tx([i \in 1..WideOuts |-> In(ToString(i), 0, "")]
                                      \o <<>>,
                                   <<Out(1000, "m0")>>)
                  [] t = "F" -> Tx(<<In("S", 0, "s0"), In("Q", 0, "")>>,
                                   \* (concatenation makes it an explicit tuple)
                                   [i \in 1..WideOuts |-> Out(1000, "")] \o <<>>)],
     history |-> [a \in {"s0"} |-> <<"S", "F">>],
     unspent |-> ({"F"} \X (0..(WideOuts - 1))) \cup {<<"M", 0>>},
     starts |-> {<<"S", 0>>, <<"M", 0>>},
     dest |-> "s0",
     depths |-> {MaxDepthArg},
     presets |-> {"standard"}]

\* An address h0 that was funded together with an exchange (ex1, E0) in H1;
\* H1 pays five addresses a1..a5, and a1 pays five more (b1..b5) in A1, so
\* that more addresses can be reached from h0 than one analysis may visit.
HubChain ==
    [txs |-> [t \in {"E0", "H0", "H1", "A1"} |->
                CASE t = "E0" -> Tx(<<In("X", 0, "")>>, <<Out(9000, "ex1")>>)
                  [] t = "H0" -> Tx(<<In("Z", 0, "")>>, <<Out(9000, "h0")>>)
                  [] t = "H1" -> Tx(<<In("H0", 0, "h0"), In("E0", 0, "ex1")>>,
                                   <<Out(5000, "a1"), Out(4000, "a2"),
                                     Out(3000, "a3"), Out(2000, "a4"),
                                     Out(1000, "a5")>>)
                  [] t = "A1" -> Tx(<<In("H1", 0, "a1")>>,
                                   <<Out(1500, "b1"), Out(1400, "b2"),
                                     Out(1300, "b3"), Out(500, "b4"),
                                     Out(300, "b5")>>)],
     history |-> [a \in {"h0", "a1", "a2", "a3", "a4", "a5",
                         "b1", "b2", "b3", "b4"} |->
                CASE a = "h0" -> <<"H0", "H1">>
                  [] a = "a1" -> <<"H1", "A1">>
                  [] a \in {"a2", "a3", "a4", "a5"} -> <<"H1">>
                  [] OTHER -> <<"A1">>],
     unspent |-> ({"H1"} \X (1..4)) \cup ({"A1"} \X (0..4)),
     starts |-> {<<"H0", 0>>},
     dest |-> "h0",
     depths |-> {2},
     presets |-> {"standard"}]

Chains == {"cycle", "fan", "mix", "line", "peel", "uneven", "data", "prox"}
\* with the graphs that reach the transaction and queue caps and the
\* detector's walk limit
CapChains == Chains \cup {"wide", "long", "hub"}
\* the graphs on which a second request to the same tracer is run
RepeatChains == {"cycle", "line"}
\* the collaborators' data of the run
Chain ==
    CASE chain = "cycle" -> CycleChain
      [] chain = "fan" -> FanChain
      [] chain = "mix" -> MixChain
      [] chain = "line" -> LineChain
      [] chain = "peel" -> PeelChain
      [] chain = "uneven" -> UnevenChain
      [] chain = "data" -> DataChain
      [] chain = "long" -> LongChain
      [] chain = "hub" -> HubChain
      [] chain = "prox" -> ProxChain
      [] chain = "wide" -> WideChain

\* the addresses analyze_exchange_proximity is asked about
ProxSeeds ==
    IF chain = "prox" THEN {"ex1", "ex2", "u1", "u2", "u3", "zz"}
    ELSE {Chain.dest}

KnownTx(t) == t \in DOMAIN Chain.txs
HistoryOf(a) == IF a \in DOMAIN Chain.history THEN Chain.history[a] ELSE <<>>
Spends(t, txid, vout) ==
    \E i \in DOMAIN Chain.txs[t].vin :
        /\ ~Chain.txs[t].vin[i].coinbase
        /\ Chain.txs[t].vin[i].txid = txid
        /\ Chain.txs[t].vin[i].vout = vout

\* FulcrumClient.find_spending_tx / KYCPrivacyTracer._find_spending_tx: the
\* first transaction of the address history, other than txid itself, one of
\* whose inputs references (txid, vout); "" when there is none.
SpendingIdx(txid, vout, a) ==
    {i \in DOMAIN HistoryOf(a) :
        /\ HistoryOf(a)[i] # txid
        /\ KnownTx(HistoryOf(a)[i])
        /\ Spends(HistoryOf(a)[i], txid, vout)}
FindSpendingTx(txid, vout, a) ==
    IF SpendingIdx(txid, vout, a) = {} THEN ""
    ELSE HistoryOf(a)[CHOOSE i \in SpendingIdx(txid, vout, a) :
                        \A j \in SpendingIdx(txid, vout, a) : i <= j]

----------------------------------------------------------------------------
(* Helpers shared by the traversals                                        *)

Warn(kind, txid, vout) == [kind |-> kind, txid |-> txid, vout |-> vout]
HasWarning(kind) == \E i \in DOMAIN warnings : warnings[i].kind = kind

Tick(dt) == Min(elapsed + dt, MaxElapsed)

\* lines 334-338 / 526-529: the queue is cut to MAX_QUEUE_SIZE before pop
\* the queue taken as it is, however long
NotTruncated(q) == q
Truncated(q) == IF Len(q) > MAX_QUEUE_SIZE THEN SubSeq(q, 1, MAX_QUEUE_SIZE) ELSE q
TruncWarnings(q, w) ==
    IF Len(q) > MAX_QUEUE_SIZE THEN Append(w, Warn("queue_truncated", "", -1)) ELSE w

\* UTXOTracer._calculate_coinjoin_score_fast, score in hundredths
CoinjoinScoreFast(tx) ==
    LET me == MaxEqual(tx.vout)
        nout == Len(tx.vout)
        nin == Len(tx.vin)
        uniq == Cardinality({tx.vout[i].value : i \in DOMAIN tx.vout})
    IN  IF nout < 2 THEN 0
        ELSE IF nout = 5 /\ me = 5
             THEN (IF \E d \in {100000, 1000000, 5000000, 50000000} :
                         /\ tx.vout[1].value - d < 10000
                         /\ d - tx.vout[1].value < 10000
                   THEN 95 ELSE 85)
        ELSE IF me >= 10 THEN 85
        ELSE IF me >= 5 /\ nin >= 3 THEN 70
        ELSE IF me >= 3 /\ nin >= 2 THEN 40
        ELSE IF uniq * 10 < 3 * nout /\ nout >= 5 THEN 50
        ELSE 0

----------------------------------------------------------------------------
(* Initial state: a tracer freshly constructed (empty cache), about to run *)
(* one traversal on one of the mocked chains.                              *)

----------------------------------------------------------------------------
(* CoinJoinDetector (coinjoin.py): scores and confidences in hundredths    *)

\* config.py: the entries the detector reads (amounts in satoshi)
COINJOIN_CONFIGS ==
    [whirlpool |-> [denominations |-> {100000, 1000000, 5000000, 50000000},
                    tolerance |-> 10000],
     wasabi |-> [min_equal_outputs |-> 10],
     joinmarket |-> [min_inputs |-> 3, min_outputs |-> 4]]

\* the type of the output an input spends, "unknown" when the record
\* carries none
ScriptType(v) == IF "script_type" \in DOMAIN v THEN v.script_type ELSE "unknown"

\* max(value_counts.keys(), key=...): the first value, in the order of the
\* outputs, among the most frequent ones
EqualOutputValue(vouts) ==
    vouts[CHOOSE i \in DOMAIN vouts :
            /\ CountOf(vouts, vouts[i].value) = MaxEqual(vouts)
            /\ \A j \in 1..(i - 1) :
                  CountOf(vouts, vouts[j].value) < MaxEqual(vouts)].value

\* TransactionStats.from_transaction
TransactionStats(tx) ==
    [input_count |-> Len(tx.vin),
     output_count |-> Len(tx.vout),
     unique_output_values |-> Cardinality({tx.vout[i].value : i \in DOMAIN tx.vout}),
     max_equal_outputs |-> MaxEqual(tx.vout),
     equal_output_value |->
         IF MaxEqual(tx.vout) >= 2 THEN EqualOutputValue(tx.vout) ELSE -1,
     input_script_types |-> {ScriptType(tx.vin[i]) : i \in DOMAIN tx.vin},
     is_coinbase |-> \E i \in DOMAIN tx.vin : tx.vin[i].coinbase]

Detection(score, confidence) == [score |-> score, confidence |-> confidence]

DetectWhirlpool(config, stats) ==
    IF stats.output_count # 5 THEN Detection(0, 0)
    ELSE IF stats.max_equal_outputs # 5 THEN Detection(10, 30)
    ELSE IF \E denom \in config.whirlpool.denominations :
               /\ stats.equal_output_value - denom < config.whirlpool.tolerance
               /\ denom - stats.equal_output_value < config.whirlpool.tolerance
         THEN Detection(95, 95)
         ELSE Detection(80, 70)

DetectWasabiV1(config, stats) ==
    IF stats.max_equal_outputs < config.wasabi.min_equal_outputs
    THEN Detection(0, 0)
    ELSE Detection(Min(85, 50 + (stats.max_equal_outputs - 10) * 5),
                   Min(90, 60 + (stats.max_equal_outputs - 10) * 3))

\* 0.50 + min(0.20, (inputs - 10) * 0.02), + 0.10 with five equal outputs.
\* (In floating point the largest value is 0.7999999999999999; it is
\* compared with earlier scores by >, which 80 > 80 decides the same way.)
DetectWasabiV2(stats) ==
    IF stats.input_count < 10 \/ stats.output_count < 10 THEN Detection(0, 0)
    ELSE LET boost == IF stats.max_equal_outputs >= 5 THEN 10 ELSE 0
         IN  Detection(50 + Min(20, (stats.input_count - 10) * 2) + boost,
                       40 + Min(25, (stats.input_count - 10) * 2) + boost)

DetectJoinmarket(config, stats) ==
    IF stats.input_count < config.joinmarket.min_inputs THEN Detection(0, 0)
    ELSE IF stats.output_count < config.joinmarket.min_outputs
    THEN Detection(10, 20)
    ELSE IF stats.max_equal_outputs < 2 THEN Detection(20, 30)
    ELSE IF 2 * stats.unique_output_values <= stats.output_count
    THEN Detection(70, 65)
    ELSE Detection(60, 55)

DetectPayjoin(stats) ==
    IF ~(/\ Cardinality(stats.input_script_types) >= 2
         /\ stats.input_count >= 2 /\ stats.input_count <= 5)
    THEN Detection(0, 0)
    ELSE IF 2 <= stats.output_count /\ stats.output_count <= 4
    THEN Detection(40, 35)
    ELSE Detection(10, 20)

DetectGenericCoinjoin(stats) ==
    LET score ==
          (IF stats.max_equal_outputs >= 5 THEN 30
           ELSE IF stats.max_equal_outputs >= 3 THEN 15 ELSE 0)
        + (IF stats.input_count >= 5 THEN 20
           ELSE IF stats.input_count >= 3 THEN 10 ELSE 0)
        + (IF stats.output_count >= 10 THEN 20
           ELSE IF stats.output_count >= 5 THEN 10 ELSE 0)
        + (IF stats.output_count = 0 THEN 0
           ELSE IF 10 * stats.unique_output_values < 3 * stats.output_count THEN 20
           ELSE IF 2 * stats.unique_output_values < stats.output_count THEN 10
           ELSE 0)
    IN  Detection(score, Min(70, score))

\* lines 138-158: every heuristic is run, in this order
DetectorResults(config, stats) ==
    <<[protocol |-> "whirlpool", r |-> DetectWhirlpool(config, stats)],
      [protocol |-> "wasabi_v1", r |-> DetectWasabiV1(config, stats)],
      [protocol |-> "wasabi_v2", r |-> DetectWasabiV2(stats)],
      [protocol |-> "joinmarket", r |-> DetectJoinmarket(config, stats)],
      [protocol |-> "payjoin", r |-> DetectPayjoin(stats)]>>

Best(score, protocol, confidence) ==
    [score |-> score, protocol |-> protocol, confidence |-> confidence]
\* mutation: the best match of the previous call is kept as the starting point
BestCarriedOver(calls) ==
    IF calls = <<>> THEN Best(0, "none", 0)
    ELSE Best(calls[Len(calls)].score, calls[Len(calls)].protocol,
              calls[Len(calls)].confidence)
\* lines 161-166: the best match is a local that starts from nothing
BestStart(calls) == Best(0, "none", 0)

\* lines 168-181: a result replaces the best one only with a greater score
RECURSIVE BestMatch(_, _, _)
BestMatch(results, i, best) ==
    IF i > Len(results) THEN best
    ELSE BestMatch(results, i + 1,
                   IF results[i].r.score > best.score
                   THEN Best(results[i].r.score, results[i].protocol,
                             results[i].r.confidence)
                   ELSE best)

\* lines 184-190: the generic pattern is tried when no heuristic reached 0.5
WithGeneric(best, generic) ==
    IF best.score < 50 /\ generic.score > best.score
    THEN Best(generic.score,
              IF generic.score >= 50 THEN "unknown_coinjoin" ELSE "none",
              generic.confidence)
    ELSE best

\* CoinJoinDetector.analyze_transaction
AnalyzeTransaction(config, calls, tx) ==
    IF TransactionStats(tx).is_coinbase THEN Best(0, "none", 100)
    ELSE WithGeneric(BestMatch(DetectorResults(config, TransactionStats(tx)), 1,
                               BestStart(calls)),
                     DetectGenericCoinjoin(TransactionStats(tx)))

\* Transactions handed to the detector: those of the CoinJoin tree, and
\* records built to match one or several patterns.
ScriptIn(i, type) ==
    [coinbase |-> FALSE, txid |-> "P", vout |-> i, address |-> "",
     script_type |-> type]
DetectorInputs ==
    {"X", "W1", "J", "WS", "V2",
     "coinbase", "payjoin", "uneven5", "big_round"}
DetectorInput(name) ==
    CASE name = "coinbase" -> Tx(<<CoinbaseIn>>, <<Out(625000000, "m")>>)
      [] name = "payjoin" ->
            Tx(<<ScriptIn(0, "witness_v0_keyhash"), ScriptIn(1, "scripthash")>>,
               <<Out(30000, "r"), Out(12000, "c")>>)
      [] name = "uneven5" ->
            Tx(<<In("P", 0, "")>>,
               <<Out(100, "a"), Out(200, "b"), Out(300, "c"), Out(400, "d"),
                 Out(500, "e")>>)
         \* twenty inputs, fifteen equal outputs and one change output
      [] name = "big_round" ->
            Tx([i \in 1..20 |-> In("P", i, "")] \o <<>>,
               [i \in 1..15 |-> Out(10000000, "")] \o <<Out(2345, "c")>>)
      [] OTHER -> MixChain.txs[name]

Ops == {"forward", "backward", "kyc", "proximity", "classify", "index", "kyc_pair",
        "job"}
\* the operations that read no chain data
Detached == {"classify", "index", "kyc_pair", "job"}

\* analyze_exchange_proximity: no result yet, and its locals at entry
NoResult ==
    [hops_to_exchange |-> -1, nearest_exchange |-> "", direction |-> "",
     proximity_score |-> 0, risk_level |-> "", path_quality_score |-> 0,
     path_strength |-> "UNKNOWN", coinjoin_count_in_path |-> 0]
NoProx ==
    [addresses_checked |-> 0, nearest_hops |-> -1, nearest_exchange |-> "",
     nearest_direction |-> "", nearest_path |-> <<>>, all_paths_found |-> <<>>,
     search_exhausted |-> FALSE,
     queries |-> [history |-> 0, tx |-> 0, height |-> 0],
     result |-> NoResult]

\* detect_peeling_chain has not been called
NoPeeling == [done |-> FALSE]
\* create_job has stored the row with status "queued" and added the
\* background task, which has not run yet; requests counts the DELETE
\* requests answered
QueuedJob == [status |-> "queued", task |-> "queued", requests |-> 0]
\* no trace_kyc_withdrawal coroutine has started; the counter is 0 after
\* __init__ (kyc_trace.py 229)
KycCallers == {1, 2}
NoKycCalls ==
    [failures |-> 0, overlapped |-> FALSE,
     call |-> [c \in KycCallers |-> [pc |-> "idle", failed |-> 0, reported |-> -1]]]

NoLast == [act |-> "none", txid |-> "", vout |-> -1, depth |-> 0,
           fetched |-> FALSE, checked |-> FALSE, looked |-> FALSE]
Did(act, e, fetched, checked, looked) ==
    [act |-> act, txid |-> e.txid, vout |-> e.vout, depth |-> e.depth,
     fetched |-> fetched, checked |-> checked, looked |-> looked]

InitOn(cs) ==
    /\ op \in Ops
    /\ chain \in (IF op \in Detached THEN {"mix"} ELSE cs)
    /\ \E s \in (IF op \in {"proximity"} \cup Detached THEN {<<"", 0>>}
                 ELSE Chain.starts),
          d \in (CASE op \in {"kyc"} \cup Detached -> {0}
                   [] op = "proximity" -> {0, 2}
                   [] OTHER -> Chain.depths),
          p \in (IF op = "kyc" THEN Chain.presets ELSE {"standard"}),
          a \in (IF op = "proximity" THEN ProxSeeds ELSE {Chain.dest}) :
          /\ args = [txid |-> s[1], vout |-> s[2], max_depth |-> d,
                     address |-> a, preset |-> p]
    /\ electrs \in (CASE op = "classify" -> {FALSE}
                       [] op \in {"index", "kyc_pair", "job"} -> {TRUE}
                       [] OTHER -> BOOLEAN)
    /\ pc = "start"
    /\ max_depth = 0
    /\ elapsed = 0
    /\ tx_cache = {}
    /\ queue = <<>>
    /\ visited = {}
    /\ tx_count = 0
    /\ consecutive_electrs_failures = 0
    /\ electrs_disabled = FALSE
    /\ lookups = <<>>
    /\ nodes = <<>>
    /\ edges = <<>>
    /\ unspent_endpoints = <<>>
    /\ coinbase_origins = <<>>
    /\ coinjoin_txids = <<>>
    /\ total_value_traced_sats = 0
    /\ warnings = <<>>
    /\ hit_limit = FALSE
    /\ destinations = <<>>
    /\ total_untraceable_sats = 0
    /\ total_traced_sats = 0
    /\ start_value = 0
    /\ electrs_failures = 0
    /\ overall_privacy_score = 0
    /\ privacy_rating = "unknown"
    /\ peeling = NoPeeling
    /\ prox = NoProx
    /\ detector = [config |-> COINJOIN_CONFIGS, calls |-> <<>>]
    /\ session = [call |-> 1, inherited |-> {}]
    /\ fulcrum = [connected |-> FALSE, handshake_complete |-> FALSE,
                  request_id |-> 0, conn |-> 0, unread |-> <<>>,
                  wire |-> <<>>, log |-> <<>>]
    /\ kyc_calls = NoKycCalls
    /\ job = QueuedJob
    /\ last = NoLast

Init == InitOn(Chains)
CapInit == InitOn(CapChains)

kycVars == <<destinations, total_untraceable_sats, total_traced_sats, start_value,
            electrs_failures, overall_privacy_score, privacy_rating>>
\* the inputs of the run, the CoinJoin detector, which the traversals and
\* analyses modelled here do not call, the address-index connection, whose
\* requests are modelled on their own, and the count of calls
sideVars == <<kyc_calls, job>>
runVars == <<op, args, chain, electrs, detector, fulcrum, session, sideVars>>
\* what no step of a traversal changes: the inputs of the run, the
\* detector's verdict, which is computed on the returned trace, and the
\* state of the exchange-proximity analysis
fixedVars == <<runVars, peeling, prox>>

----------------------------------------------------------------------------
(* UTXOTracer.trace_forward                                                *)

\* mutation: the node records the depth of its children instead of its own
UTXONodeChildDepth(e, tx, status, by_txid, by_vin) ==
    [txid |-> e.txid, vout |-> e.vout,
     value_sats |-> tx.vout[e.vout + 1].value,
     address |-> tx.vout[e.vout + 1].address,
     status |-> status, spent_by_txid |-> by_txid, spent_by_vin |-> by_vin,
     depth |-> e.depth + 1, coinjoin_score |-> CoinjoinScoreFast(tx)]
UTXONode(e, tx, status, by_txid, by_vin) ==
    [txid |-> e.txid, vout |-> e.vout,
     value_sats |-> tx.vout[e.vout + 1].value,
     address |-> tx.vout[e.vout + 1].address,
     status |-> status, spent_by_txid |-> by_txid, spent_by_vin |-> by_vin,
     depth |-> e.depth, coinjoin_score |-> CoinjoinScoreFast(tx)]

TraceEdge(ft, fv, tt, tv, v) ==
    [from_txid |-> ft, from_vout |-> fv, to_txid |-> tt, to_vin |-> tv,
     value_sats |-> v]

\* lines 284-319: clamp max_depth, build the empty result, seed the queue
FwdStart ==
    /\ op = "forward" /\ pc = "start"
    /\ pc' = "loop"
    /\ max_depth' = Min(args.max_depth, MAX_TRACE_DEPTH)
    /\ warnings' = IF electrs THEN <<>> ELSE <<Warn("electrs_unavailable", "", -1)>>
    /\ queue' = <<[txid |-> args.txid, vout |-> args.vout, depth |-> 0]>>
    /\ UNCHANGED <<fixedVars, elapsed, tx_cache, visited, tx_count,
                   consecutive_electrs_failures, electrs_disabled, lookups,
                   nodes, edges, unspent_endpoints, coinbase_origins,
                   coinjoin_txids, total_value_traced_sats, hit_limit,
                   kycVars, last>>

\* mutation: the transaction cap is not reported
FinishWarningsSilent(w) == w
\* lines 472-492: the statements after the loop
FinishWarnings(w) ==
    IF tx_count >= MAX_TRANSACTIONS_PER_TRACE
    THEN Append(w, Warn("transaction_limit", "", -1)) ELSE w
FinishHitLimit(h) == h \/ tx_count >= MAX_TRANSACTIONS_PER_TRACE

\* line 321: the while condition fails
FwdReturn ==
    /\ op = "forward" /\ pc = "loop"
    /\ ~(queue # <<>> /\ tx_count < MAX_TRANSACTIONS_PER_TRACE)
    /\ pc' = "returned"
    /\ warnings' = FinishWarnings(warnings)
    /\ hit_limit' = FinishHitLimit(hit_limit)
    /\ UNCHANGED <<fixedVars, max_depth, elapsed, tx_cache, queue, visited,
                   tx_count, consecutive_electrs_failures, electrs_disabled,
                   lookups, nodes, edges, unspent_endpoints, coinbase_origins,
                   coinjoin_txids, total_value_traced_sats, kycVars, last>>

FwdInLoop ==
    /\ op = "forward" /\ pc = "loop"
    /\ queue # <<>> /\ tx_count < MAX_TRANSACTIONS_PER_TRACE

\* lines 323-328: the wall-clock cap
FwdTimedOut == elapsed > MAX_TRACE_TIME_SECONDS

FwdTimeout ==
    /\ FwdInLoop /\ FwdTimedOut
    /\ pc' = "returned"
    /\ warnings' = FinishWarnings(Append(warnings, Warn("timeout", "", -1)))
    /\ hit_limit' = TRUE
    /\ UNCHANGED <<fixedVars, max_depth, elapsed, tx_cache, queue, visited,
                   tx_count, consecutive_electrs_failures, electrs_disabled,
                   lookups, nodes, edges, unspent_endpoints, coinbase_origins,
                   coinjoin_txids, total_value_traced_sats, kycVars, last>>

\* The entry taken by queue.pop(0) and what stays queued (lines 334-340)
Cur == Head(Truncated(queue))
\* mutation: the head is read but not popped
RestNoPop == Truncated(queue)
Rest == Tail(Truncated(queue))

FwdIter == FwdInLoop /\ ~FwdTimedOut
FwdIterFrame ==
    /\ hit_limit' = (hit_limit \/ Len(queue) > MAX_QUEUE_SIZE)
    /\ UNCHANGED <<fixedVars, max_depth, coinbase_origins, kycVars>>

\* mutation: the visited test is dropped
FwdNeverVisited(e) == FALSE
\* lines 342-343
FwdVisited(e) == <<e.txid, e.vout>> \in visited

FwdSkipVisited ==
    /\ FwdIter /\ FwdVisited(Cur)
    /\ queue' = Rest
    /\ warnings' = TruncWarnings(queue, warnings)
    /\ last' = Did("skip", Cur, FALSE, FALSE, FALSE)
    /\ FwdIterFrame
    /\ UNCHANGED <<pc, elapsed, tx_cache, visited, tx_count,
                   consecutive_electrs_failures, electrs_disabled, lookups,
                   nodes, edges, unspent_endpoints, coinjoin_txids,
                   total_value_traced_sats>>

\* lines 346-349
FwdBeyondDepth(e) == e.depth > max_depth

FwdDepthLimit ==
    /\ FwdIter /\ ~FwdVisited(Cur) /\ FwdBeyondDepth(Cur)
    /\ queue' = Rest
    /\ visited' = visited \cup {<<Cur.txid, Cur.vout>>}
    /\ warnings' = Append(TruncWarnings(queue, warnings),
                          Warn("depth_limit", Cur.txid, Cur.vout))
    /\ last' = Did("depth_limit", Cur, FALSE, FALSE, FALSE)
    /\ FwdIterFrame
    /\ UNCHANGED <<pc, elapsed, tx_cache, tx_count,
                   consecutive_electrs_failures, electrs_disabled, lookups,
                   nodes, edges, unspent_endpoints, coinjoin_txids,
                   total_value_traced_sats>>

FwdFetches == FwdIter /\ ~FwdVisited(Cur) /\ ~FwdBeyondDepth(Cur)

\* _get_transaction (lines 165-187): a cached record is returned; otherwise
\* the node is asked, and an unknown txid or a failing call gives None.
FetchOutcomes(t) ==
    IF t \in tx_cache THEN {TRUE}
    ELSE IF KnownTx(t) THEN {TRUE, FALSE} ELSE {FALSE}

\* lines 351-355
FwdTxNotFound ==
    /\ FwdFetches
    /\ FALSE \in FetchOutcomes(Cur.txid)
    /\ \E dt \in {0, SlowCall} : elapsed' = Tick(dt)
    /\ queue' = Rest
    /\ visited' = visited \cup {<<Cur.txid, Cur.vout>>}
    /\ warnings' = Append(TruncWarnings(queue, warnings),
                          Warn("tx_not_found", Cur.txid, -1))
    /\ last' = Did("tx_not_found", Cur, TRUE, FALSE, FALSE)
    /\ FwdIterFrame
    /\ UNCHANGED <<pc, tx_cache, tx_count,
                   consecutive_electrs_failures, electrs_disabled, lookups,
                   nodes, edges, unspent_endpoints, coinjoin_txids,
                   total_value_traced_sats>>

FwdFetched == FwdFetches /\ TRUE \in FetchOutcomes(Cur.txid)

\* lines 359-361
FwdInvalidVout ==
    /\ FwdFetched
    /\ Cur.vout >= Len(Chain.txs[Cur.txid].vout)
    /\ \E dt \in {0, SlowCall} : elapsed' = Tick(dt)
    /\ queue' = Rest
    /\ visited' = visited \cup {<<Cur.txid, Cur.vout>>}
    /\ tx_cache' = tx_cache \cup {Cur.txid}
    /\ tx_count' = tx_count + 1
    /\ warnings' = Append(TruncWarnings(queue, warnings),
                          Warn("invalid_vout", Cur.txid, Cur.vout))
    /\ last' = Did("invalid_vout", Cur, TRUE, FALSE, FALSE)
    /\ FwdIterFrame
    /\ UNCHANGED <<pc, consecutive_electrs_failures, electrs_disabled, lookups,
                   nodes, edges, unspent_endpoints, coinjoin_txids,
                   total_value_traced_sats>>

FwdHasOutput == FwdFetched /\ Cur.vout < Len(Chain.txs[Cur.txid].vout)
CurTx == Chain.txs[Cur.txid]
CurOut == CurTx.vout[Cur.vout + 1]

\* lines 377-379
WithCoinjoin(cj, tx, txid, threshold_passed) ==
    IF threshold_passed /\ \A i \in DOMAIN cj : cj[i] # txid
    THEN Append(cj, txid) ELSE cj

\* line 375: rpc.get_tx_out raises BitcoinRPCError (connection failure or
\* timeout, bitcoin_rpc.py lines 67-70); nothing in trace_forward catches it.
FwdGetTxOutRaises ==
    /\ FwdHasOutput
    /\ pc' = "raised"
    /\ \E dt \in {0, SlowCall} : elapsed' = Tick(dt)
    /\ queue' = Rest
    /\ visited' = visited \cup {<<Cur.txid, Cur.vout>>}
    /\ tx_cache' = tx_cache \cup {Cur.txid}
    /\ tx_count' = tx_count + 1
    /\ warnings' = TruncWarnings(queue, warnings)
    /\ last' = Did("raised", Cur, TRUE, TRUE, FALSE)
    /\ FwdIterFrame
    /\ UNCHANGED <<consecutive_electrs_failures, electrs_disabled, lookups,
                   nodes, edges, unspent_endpoints, coinjoin_txids,
                   total_value_traced_sats>>

\* What every iteration that got an answer from get_tx_out does
FwdChecked(act, looked) ==
    /\ FwdHasOutput
    /\ \E dt \in {0, SlowCall} : elapsed' = Tick(dt)
    /\ visited' = visited \cup {<<Cur.txid, Cur.vout>>}
    /\ tx_count' = tx_count + 1
    /\ coinjoin_txids' = WithCoinjoin(coinjoin_txids, CurTx, Cur.txid,
                                       CoinjoinScoreFast(CurTx) > 70)
    /\ total_value_traced_sats' = total_value_traced_sats + CurOut.value
    /\ last' = Did(act, Cur, TRUE, TRUE, looked)
    /\ FwdIterFrame
    /\ UNCHANGED pc

\* lines 381-397
FwdUnspent ==
    /\ FwdChecked("unspent", FALSE)
    /\ <<Cur.txid, Cur.vout>> \in Chain.unspent
    /\ queue' = Rest
    /\ tx_cache' = tx_cache \cup {Cur.txid}
    /\ nodes' = Append(nodes, UTXONode(Cur, CurTx, "unspent", "", -1))
    /\ unspent_endpoints' =
          Append(unspent_endpoints, UTXONode(Cur, CurTx, "unspent", "", -1))
    /\ warnings' = TruncWarnings(queue, warnings)
    /\ UNCHANGED <<consecutive_electrs_failures, electrs_disabled, lookups, edges>>

FwdSpent == FwdHasOutput /\ <<Cur.txid, Cur.vout>> \notin Chain.unspent

\* mutation: the breaker flag is not consulted
FwdLookupIgnoringBreaker ==
    electrs /\ CurOut.address # "" /\ Cur.depth < max_depth

\* line 403
FwdMayLookup ==
    electrs /\ CurOut.address # "" /\ Cur.depth < max_depth /\ ~electrs_disabled

\* lines 398-403, 452-467: spent, and no lookup is attempted
FwdSpentNoLookup ==
    /\ FwdChecked("spent", FALSE)
    /\ FwdSpent /\ ~FwdMayLookup
    /\ queue' = Rest
    /\ tx_cache' = tx_cache \cup {Cur.txid}
    /\ nodes' = Append(nodes, UTXONode(Cur, CurTx, "spent", "", -1))
    /\ warnings' = TruncWarnings(queue, warnings)
    /\ UNCHANGED <<consecutive_electrs_failures, electrs_disabled, lookups,
                   edges, unspent_endpoints>>

\* lines 421-424: index of the first input spending (txid, vout), else None
SpendingVin(tx, txid, vout) ==
    LET M == {i \in DOMAIN tx.vin : /\ ~tx.vin[i].coinbase
                                     /\ tx.vin[i].txid = txid
                                     /\ tx.vin[i].vout = vout}
    IN  IF M = {} THEN -1 ELSE (CHOOSE i \in M : \A j \in M : i <= j) - 1

\* lines 436-438
FwdEnqueue(q, txid, n, depth) ==
    q \o SelectSeq([i \in 1..n |-> [txid |-> txid, vout |-> i - 1, depth |-> depth]],
                   LAMBDA e : <<e.txid, e.vout>> \notin
                                    visited \cup {<<Cur.txid, Cur.vout>>})

\* mutation: the edge points from the spending transaction back to the output
FwdEdgeReversed(e, sp, vin, value) ==
    TraceEdge(sp, Max(vin, 0), e.txid, e.vout, value)
\* lines 427-433: from the traced output to the input that spends it
FwdEdge(e, sp, vin, value) ==
    TraceEdge(e.txid, e.vout, sp, Max(vin, 0), value)

\* lines 412-438: the lookup answers and the spending transaction is fetched
FwdLookupFound ==
    /\ FwdChecked("spent", TRUE)
    /\ FwdSpent /\ FwdMayLookup
    /\ LET sp == FindSpendingTx(Cur.txid, Cur.vout, CurOut.address)
           vin == SpendingVin(Chain.txs[sp], Cur.txid, Cur.vout)
       IN  /\ sp # ""
           /\ TRUE \in FetchOutcomes(sp)
           /\ lookups' = Append(lookups, "found")
           /\ consecutive_electrs_failures' = 0
           /\ tx_cache' = tx_cache \cup {Cur.txid, sp}
           /\ edges' = Append(edges, FwdEdge(Cur, sp, vin, CurOut.value))
           /\ queue' = FwdEnqueue(Rest, sp, Len(Chain.txs[sp].vout),
                                  Cur.depth + 1)
           /\ nodes' = Append(nodes, UTXONode(Cur, CurTx, "spent", sp, vin))
    /\ warnings' = TruncWarnings(queue, warnings)
    /\ UNCHANGED <<electrs_disabled, unspent_endpoints>>

\* lines 412-419: the lookup answers but the node does not return the
\* spending transaction
FwdLookupFoundTxMissing ==
    /\ FwdChecked("spent", TRUE)
    /\ FwdSpent /\ FwdMayLookup
    /\ LET sp == FindSpendingTx(Cur.txid, Cur.vout, CurOut.address)
       IN  /\ sp # ""
           /\ FALSE \in FetchOutcomes(sp)
           /\ nodes' = Append(nodes, UTXONode(Cur, CurTx, "spent", sp, -1))
    /\ lookups' = Append(lookups, "found")
    /\ consecutive_electrs_failures' = 0
    /\ tx_cache' = tx_cache \cup {Cur.txid}
    /\ queue' = Rest
    /\ warnings' = TruncWarnings(queue, warnings)
    /\ UNCHANGED <<electrs_disabled, edges, unspent_endpoints>>

\* lines 444-450
\* mutation: the breaker opens on the first failure
DisableAfterFirst(n) == n >= 1
DisableAfter(n) == n >= MAX_CONSECUTIVE_ELECTRS_FAILURES

\* lines 439-450: the lookup returns None (no answer, timeout, exception or
\* no spending transaction in the history)
FwdLookupFailed ==
    /\ FwdChecked("spent", TRUE)
    /\ FwdSpent /\ FwdMayLookup
    /\ lookups' = Append(lookups, "failed")
    /\ consecutive_electrs_failures' = consecutive_electrs_failures + 1
    /\ electrs_disabled' = DisableAfter(consecutive_electrs_failures + 1)
    /\ warnings' = IF DisableAfter(consecutive_electrs_failures + 1)
                   THEN Append(TruncWarnings(queue, warnings),
                               Warn("electrs_disabled", "",
                                    consecutive_electrs_failures + 1))
                   ELSE TruncWarnings(queue, warnings)
    /\ tx_cache' = tx_cache \cup {Cur.txid}
    /\ queue' = Rest
    /\ nodes' = Append(nodes, UTXONode(Cur, CurTx, "spent", "", -1))
    /\ UNCHANGED <<edges, unspent_endpoints>>

----------------------------------------------------------------------------
(* UTXOTracer.trace_backward                                               *)

\* lines 504-523
BwdStart ==
    /\ op = "backward" /\ pc = "start"
    /\ pc' = "loop"
    /\ max_depth' = Min(args.max_depth, MAX_TRACE_DEPTH)
    /\ queue' = <<[txid |-> args.txid, vout |-> 0, depth |-> 0]>>
    /\ UNCHANGED <<fixedVars, elapsed, tx_cache, visited, tx_count,
                   consecutive_electrs_failures, electrs_disabled, lookups,
                   nodes, edges, unspent_endpoints, coinbase_origins,
                   coinjoin_txids, total_value_traced_sats, warnings,
                   hit_limit, kycVars, last>>

\* line 525 fails, then lines 630-637
BwdReturn ==
    /\ op = "backward" /\ pc = "loop"
    /\ ~(queue # <<>> /\ tx_count < MAX_TRANSACTIONS_PER_TRACE)
    /\ pc' = "returned"
    /\ warnings' = FinishWarnings(warnings)
    /\ hit_limit' = FinishHitLimit(hit_limit)
    /\ UNCHANGED <<fixedVars, max_depth, elapsed, tx_cache, queue, visited,
                   tx_count, consecutive_electrs_failures, electrs_disabled,
                   lookups, nodes, edges, unspent_endpoints, coinbase_origins,
                   coinjoin_txids, total_value_traced_sats, kycVars, last>>

\* line 525: the loop is entered on the queue and the transaction count only
BwdIter ==
    /\ op = "backward" /\ pc = "loop"
    /\ queue # <<>> /\ tx_count < MAX_TRANSACTIONS_PER_TRACE

BwdIterFrame ==
    /\ hit_limit' = (hit_limit \/ Len(queue) > MAX_QUEUE_SIZE)
    /\ UNCHANGED <<fixedVars, pc, max_depth, kycVars, unspent_endpoints,
                   consecutive_electrs_failures, electrs_disabled, lookups>>

\* lines 533-534
BwdVisited(e) == e.txid \in visited

BwdSkipVisited ==
    /\ BwdIter /\ BwdVisited(Cur)
    /\ queue' = Rest
    /\ warnings' = TruncWarnings(queue, warnings)
    /\ last' = Did("skip", Cur, FALSE, FALSE, FALSE)
    /\ BwdIterFrame
    /\ UNCHANGED <<elapsed, tx_cache, visited, tx_count, nodes, edges,
                   coinbase_origins, coinjoin_txids, total_value_traced_sats>>

\* lines 537-539
BwdBeyondDepth(e) == e.depth > max_depth

BwdDepthLimit ==
    /\ BwdIter /\ ~BwdVisited(Cur) /\ BwdBeyondDepth(Cur)
    /\ queue' = Rest
    /\ visited' = visited \cup {Cur.txid}
    /\ warnings' = Append(TruncWarnings(queue, warnings),
                          Warn("depth_limit", Cur.txid, -1))
    /\ last' = Did("depth_limit", Cur, FALSE, FALSE, FALSE)
    /\ BwdIterFrame
    /\ UNCHANGED <<elapsed, tx_cache, tx_count, nodes, edges,
                   coinbase_origins, coinjoin_txids, total_value_traced_sats>>

BwdFetches == BwdIter /\ ~BwdVisited(Cur) /\ ~BwdBeyondDepth(Cur)

\* lines 541-544
BwdTxNotFound ==
    /\ BwdFetches
    /\ FALSE \in FetchOutcomes(Cur.txid)
    /\ \E dt \in {0, SlowCall} : elapsed' = Tick(dt)
    /\ queue' = Rest
    /\ visited' = visited \cup {Cur.txid}
    /\ warnings' = Append(TruncWarnings(queue, warnings),
                          Warn("tx_not_found", Cur.txid, -1))
    /\ last' = Did("tx_not_found", Cur, TRUE, FALSE, FALSE)
    /\ BwdIterFrame
    /\ UNCHANGED <<tx_cache, tx_count, nodes, edges, coinbase_origins,
                   coinjoin_txids, total_value_traced_sats>>

BwdFetched ==
    /\ BwdFetches /\ TRUE \in FetchOutcomes(Cur.txid)
    /\ \E dt \in {0, SlowCall} : elapsed' = Tick(dt)
    /\ visited' = visited \cup {Cur.txid}
    /\ tx_cache' = tx_cache \cup {Cur.txid}
    /\ tx_count' = tx_count + 1
    /\ warnings' = TruncWarnings(queue, warnings)
    /\ BwdIterFrame

\* mutation: no transaction is taken for a coinbase
IsCoinbaseNever(tx) == FALSE
\* line 554
IsCoinbase(tx) == \E i \in DOMAIN tx.vin : tx.vin[i].coinbase

RECURSIVE SumValues(_, _)
SumValues(vouts, i) ==
    IF i > Len(vouts) THEN 0 ELSE vouts[i].value + SumValues(vouts, i + 1)

\* lines 603-610: address of the largest output (the first one among equals)
LargestOutAddress(tx) ==
    IF tx.vout = <<>> THEN ""
    ELSE LET M == {i \in DOMAIN tx.vout :
                      \A j \in DOMAIN tx.vout : tx.vout[j].value <= tx.vout[i].value}
         IN  tx.vout[CHOOSE i \in M : \A j \in M : i <= j].address

BwdNode(e, tx, status, address, score) ==
    [txid |-> e.txid, vout |-> 0, value_sats |-> SumValues(tx.vout, 1),
     address |-> address, status |-> status, spent_by_txid |-> "",
     spent_by_vin |-> -1, depth |-> e.depth, coinjoin_score |-> score]

\* lines 556-576
BwdCoinbase ==
    /\ BwdFetched
    /\ IsCoinbase(CurTx)
    /\ LET n == BwdNode(Cur, CurTx, "coinbase",
                        IF CurTx.vout = <<>> THEN "" ELSE CurTx.vout[1].address, 0)
       IN  /\ nodes' = Append(nodes, n)
           /\ coinbase_origins' = Append(coinbase_origins, n)
    /\ queue' = Rest
    /\ last' = Did("coinbase", Cur, TRUE, FALSE, FALSE)
    /\ UNCHANGED <<edges, coinjoin_txids, total_value_traced_sats>>

\* line 583
BwdMayExpand(e) == e.depth < max_depth

\* lines 584-598: one edge per input, the previous transaction is queued
\* unless it is already visited
PrevOuts(tx) == SelectSeq(tx.vin, LAMBDA v : ~v.coinbase)
BwdEdges(es, tx, txid) ==
    es \o [i \in 1..Len(PrevOuts(tx)) |->
             TraceEdge(PrevOuts(tx)[i].txid, PrevOuts(tx)[i].vout, txid, 0, 0)]
BwdEnqueue(q, tx, seen, depth) ==
    q \o [i \in 1..Len(SelectSeq(PrevOuts(tx), LAMBDA v : v.txid \notin seen)) |->
            [txid |-> SelectSeq(PrevOuts(tx), LAMBDA v : v.txid \notin seen)[i].txid,
             vout |-> 0, depth |-> depth]]

\* lines 578-625
BwdSpent ==
    /\ BwdFetched
    /\ ~IsCoinbase(CurTx)
    /\ coinjoin_txids' = WithCoinjoin(coinjoin_txids, CurTx, Cur.txid,
                                       CoinjoinScoreFast(CurTx) > 70)
    /\ edges' = IF BwdMayExpand(Cur) THEN BwdEdges(edges, CurTx, Cur.txid)
                ELSE edges
    /\ queue' = IF BwdMayExpand(Cur)
                THEN BwdEnqueue(Rest, CurTx, visited \cup {Cur.txid},
                                Cur.depth + 1)
                ELSE Rest
    /\ nodes' = Append(nodes, BwdNode(Cur, CurTx, "spent",
                                      LargestOutAddress(CurTx),
                                      CoinjoinScoreFast(CurTx)))
    /\ total_value_traced_sats' = total_value_traced_sats + SumValues(CurTx.vout, 1)
    /\ last' = Did("spent", Cur, TRUE, FALSE, FALSE)
    /\ UNCHANGED coinbase_origins

----------------------------------------------------------------------------
(* KYCPrivacyTracer.trace_kyc_withdrawal                                   *)

MAX_DEPTH == 15
MAX_TRANSACTIONS == 300
\* fixed-point confidences: CONF_ONE is 1.0
CONF_ONE == 1000000
\* COINJOIN_THRESHOLD 0.7, in hundredths
COINJOIN_THRESHOLD == 70
\* CONFIDENCE_COLD_THRESHOLD 0.05
CONFIDENCE_COLD_THRESHOLD == 50000
\* the floor 0.001 of _calculate_coinjoin_confidence_degradation
CONFIDENCE_FLOOR == 1000

\* DEPTH_PRESETS, an unknown name falls back to "standard" (line 789)
PresetDepth(p) ==
    CASE p = "quick" -> 3
      [] p = "standard" -> 6
      [] p = "deep" -> 10
      [] p = "thorough" -> 15
      [] OTHER -> 6

\* _calculate_coinjoin_score, in hundredths
CalculateCoinjoinScore(tx) ==
    LET me == MaxEqual(tx.vout)
        nout == Len(tx.vout)
        nin == Len(tx.vin)
    IN  IF nout < 2 THEN 0
        ELSE IF nout = 5 /\ me = 5 THEN 95
        ELSE IF me >= 10 THEN 90
        ELSE IF nin >= 10 /\ nout >= 10 /\ me >= 5 THEN 70
        ELSE IF me >= 5 /\ nin >= 3 THEN 75
        ELSE IF me >= 3 /\ nin >= 2 THEN 50
        ELSE 0

\* _get_coinjoin_details: (protocol, anonymity set size)
GetCoinjoinDetails(tx, score) ==
    LET me == MaxEqual(tx.vout)
        nout == Len(tx.vout)
        nin == Len(tx.vin)
    IN  IF score < COINJOIN_THRESHOLD THEN <<"none", 0>>
        ELSE IF nout = 5 /\ me = 5 THEN <<"whirlpool", 5>>
        ELSE IF me >= 10 THEN <<"wasabi_v1", me>>
        ELSE IF nin >= 10 /\ nout >= 10 THEN <<"wasabi_v2", Min(nin, nout)>>
        ELSE IF me >= 5 /\ nin >= 3 THEN <<"joinmarket", me>>
        ELSE <<"unknown", Max(me, 2)>>

\* protocol_multipliers, in tenths
ProtocolMultiplier(protocol) ==
    CASE protocol = "whirlpool" -> 15
      [] protocol = "wasabi_v1" -> 13
      [] protocol = "wasabi_v2" -> 18
      [] protocol = "joinmarket" -> 20
      [] OTHER -> 25

\* mutation: the division by the anonymity set is forgotten
CoinjoinConfidenceNoDivision(protocol, anonymity_set_size, prev_confidence) ==
    IF anonymity_set_size < 2 THEN prev_confidence
    ELSE Max((prev_confidence * ProtocolMultiplier(protocol)) \div 10,
             CONFIDENCE_FLOOR)
\* _calculate_coinjoin_confidence_degradation
CoinjoinConfidenceDegradation(protocol, anonymity_set_size, prev_confidence) ==
    IF anonymity_set_size < 2 THEN prev_confidence
    ELSE Max((prev_confidence * ProtocolMultiplier(protocol))
                \div (10 * anonymity_set_size),
             CONFIDENCE_FLOOR)

\* line 942: the flat decay of a hop that is no CoinJoin
HopDecay(prev_confidence) == (prev_confidence * 95) \div 100

\* lines 931-942
HopConfidence(is_coinjoin, protocol, anonymity_set_size, prev_confidence) ==
    IF is_coinjoin
    THEN CoinjoinConfidenceDegradation(protocol, anonymity_set_size, prev_confidence)
    ELSE HopDecay(prev_confidence)

\* _detect_change_output, (is_change, probability in hundredths).  The mocked
\* records carry no script types and no prevout values, so heuristic 2 never
\* matches and heuristic 3 matches whenever an input has a prevout.
InputAddresses(tx) ==
    {tx.vin[i].address : i \in {j \in DOMAIN tx.vin : tx.vin[j].address # ""}}
DetectChangeOutput(tx, idx) ==
    LET out == tx.vout[idx + 1]
        p == (IF InputAddresses(tx) # {} THEN 15 ELSE 0)
             + (IF out.value % 100000 # 0 THEN 20 ELSE 0)
             + (IF \E i \in DOMAIN tx.vout : tx.vout[i].value > out.value
                THEN 15 ELSE 0)
             + (IF idx = Len(tx.vout) - 1 THEN 10 ELSE 0)
    IN  IF out.address # "" /\ out.address \in InputAddresses(tx)
        THEN <<TRUE, 95>>
        ELSE <<p > 35, Min(p, 85)>>

\* lines 904-961
PathNode(e, tx) ==
    LET score == CalculateCoinjoinScore(tx)
        is_cj == score >= COINJOIN_THRESHOLD
        det == IF is_cj THEN GetCoinjoinDetails(tx, score) ELSE <<"none", 0>>
        chg == DetectChangeOutput(tx, e.vout)
        prev == IF e.path = <<>> THEN CONF_ONE
                ELSE e.path[Len(e.path)].cumulative_confidence
    IN  [txid |-> e.txid, vout |-> e.vout,
         value_sats |-> tx.vout[e.vout + 1].value,
         address |-> tx.vout[e.vout + 1].address,
         is_coinjoin |-> is_cj, coinjoin_score |-> score,
         coinjoin_count_in_path |-> e.cj_count + (IF is_cj THEN 1 ELSE 0),
         coinjoin_protocol |-> det[1], anonymity_set_size |-> det[2],
         depth |-> e.depth, is_change |-> chg[1], change_probability |-> chg[2],
         cumulative_confidence |-> HopConfidence(is_cj, det[1], det[2], prev)]

\* _calculate_path_confidence (the score only, not the reasoning strings)
CalculatePathConfidence(path, original_value) ==
    IF path = <<>> THEN 0
    ELSE LET lastn == path[Len(path)]
             c0 == lastn.cumulative_confidence
             c1 == IF lastn.value_sats * 10 > Max(original_value, 1)
                   THEN c0 ELSE (c0 * 7) \div 10
             c2 == IF \E i \in DOMAIN path :
                        path[i].is_change /\ path[i].change_probability > 80
                   THEN Min((c1 * 11) \div 10, CONF_ONE) ELSE c1
         IN  Min(Max(c2, 0), CONF_ONE)

\* _get_confidence_level
GetConfidenceLevel(score) ==
    IF score >= 700000 THEN "high"
    ELSE IF score >= 400000 THEN "medium"
    ELSE IF score >= 200000 THEN "low"
    ELSE "negligible"

ProbableDestination(address, value, score, level, status, cj, path) ==
    [address |-> IF address = "" THEN "unknown" ELSE address,
     value_sats |-> value, confidence_score |-> score,
     confidence_level |-> level, path_length |-> Len(path),
     coinjoins_passed |-> cj, trail_status |-> status, path |-> path]

kycIdle == <<nodes, edges, unspent_endpoints, coinbase_origins,
             total_value_traced_sats, hit_limit>>

\* lines 785-811: the exchange transaction cannot be fetched
KycStartTxNotFound ==
    /\ op = "kyc" /\ pc = "start"
    /\ FALSE \in FetchOutcomes(args.txid)
    /\ pc' = "returned"
    /\ max_depth' = Min(PresetDepth(args.preset), MAX_DEPTH)
    /\ warnings' = (IF electrs THEN <<>> ELSE <<Warn("electrs_unavailable", "", -1)>>)
                   \o <<Warn("tx_not_found", args.txid, -1)>>
    /\ \E dt \in {0, SlowCall} : elapsed' = Tick(dt)
    /\ UNCHANGED <<fixedVars, tx_cache, queue, visited, tx_count,
                   consecutive_electrs_failures, electrs_disabled, lookups,
                   coinjoin_txids, kycIdle, kycVars, last>>

\* mutation: the first output is taken whatever its address
StartVoutFirst(tx, address) == 0
\* lines 813-823: index of the first output paying destination_address
StartVout(tx, address) ==
    LET M == {i \in DOMAIN tx.vout : tx.vout[i].address = address}
    IN  IF M = {} THEN -1 ELSE (CHOOSE i \in M : \A j \in M : i <= j) - 1

\* lines 825-828
KycStartNoOutput ==
    /\ op = "kyc" /\ pc = "start"
    /\ TRUE \in FetchOutcomes(args.txid)
    /\ StartVout(Chain.txs[args.txid], args.address) = -1
    /\ pc' = "returned"
    /\ max_depth' = Min(PresetDepth(args.preset), MAX_DEPTH)
    /\ tx_cache' = tx_cache \cup {args.txid}
    /\ warnings' = (IF electrs THEN <<>> ELSE <<Warn("electrs_unavailable", "", -1)>>)
                   \o <<Warn("destination_not_found", args.txid, -1)>>
    /\ \E dt \in {0, SlowCall} : elapsed' = Tick(dt)
    /\ UNCHANGED <<fixedVars, queue, visited, tx_count,
                   consecutive_electrs_failures, electrs_disabled, lookups,
                   coinjoin_txids, kycIdle, kycVars, last>>

\* lines 785-843
KycStart ==
    /\ op = "kyc" /\ pc = "start"
    /\ TRUE \in FetchOutcomes(args.txid)
    /\ LET v == StartVout(Chain.txs[args.txid], args.address)
       IN  /\ v # -1
           /\ start_value' = Chain.txs[args.txid].vout[v + 1].value
           /\ queue' = <<[txid |-> args.txid, vout |-> v, depth |-> 0,
                          cj_count |-> 0, path |-> <<>>,
                          value |-> Chain.txs[args.txid].vout[v + 1].value,
                          confidence |-> CONF_ONE]>>
    /\ pc' = "loop"
    /\ max_depth' = Min(PresetDepth(args.preset), MAX_DEPTH)
    /\ tx_cache' = tx_cache \cup {args.txid}
    /\ electrs_failures' = 0
    /\ warnings' = IF electrs THEN <<>> ELSE <<Warn("electrs_unavailable", "", -1)>>
    /\ \E dt \in {0, SlowCall} : elapsed' = Tick(dt)
    /\ UNCHANGED <<fixedVars, visited, tx_count,
                   consecutive_electrs_failures, electrs_disabled, lookups,
                   coinjoin_txids, kycIdle, destinations,
                   total_untraceable_sats, total_traced_sats,
                   overall_privacy_score, privacy_rating, last>>

\* line 1069: destinations.sort(key=confidence_score, reverse=True) (stable)
SortRank(ds, i) ==
    Cardinality({j \in DOMAIN ds :
                    \/ ds[j].confidence_score > ds[i].confidence_score
                    \/ (j < i /\ ds[j].confidence_score = ds[i].confidence_score)}) + 1
SortDestinations(ds) ==
    [k \in 1..Len(ds) |-> ds[CHOOSE i \in DOMAIN ds : SortRank(ds, i) = k]]

RECURSIVE SumStatus(_, _, _)
SumStatus(ds, status, i) ==
    IF i > Len(ds) THEN 0
    ELSE (IF ds[i].trail_status = status THEN ds[i].value_sats ELSE 0)
         + SumStatus(ds, status, i + 1)

\* _calculate_overall_privacy, in tenths of a point
CalculateOverallPrivacy(ds, total, coinjoins_encountered) ==
    IF ds = <<>> THEN 1000
    ELSE LET cold == IF total > 0
                     THEN (SumStatus(ds, "cold", 1) * 500) \div total ELSE 0
             nhigh == Cardinality({i \in DOMAIN ds : ds[i].confidence_level = "high"})
             high == IF nhigh = 0 THEN 300 ELSE IF nhigh = 1 THEN 100 ELSE 0
             anycold == \E i \in DOMAIN ds : ds[i].trail_status = "cold"
             cj == IF coinjoins_encountered >= 2
                   THEN (IF anycold THEN 200 ELSE 100)
                   ELSE IF coinjoins_encountered = 1 THEN 50 ELSE 0
             lost == IF total > 0
                     THEN (SumStatus(ds, "lost", 1) * 100) \div total ELSE 0
         IN  Max(0, Min(cold + high + cj - lost, 1000))

\* _get_privacy_rating
GetPrivacyRating(score) ==
    IF score >= 700 THEN "good"
    ELSE IF score >= 500 THEN "moderate"
    ELSE IF score >= 300 THEN "poor"
    ELSE "very_poor"

\* lines 1068-1089: the statements after the loop
KycFinish(w) ==
    /\ pc' = "returned"
    /\ destinations' = SortDestinations(destinations)
    /\ warnings' = IF electrs_failures > 0
                   THEN Append(w, Warn("electrs_issues", "", electrs_failures))
                   ELSE w
    /\ electrs_failures' = 0
    /\ overall_privacy_score' =
          CalculateOverallPrivacy(destinations, start_value, Len(coinjoin_txids))
    /\ privacy_rating' = GetPrivacyRating(
          CalculateOverallPrivacy(destinations, start_value, Len(coinjoin_txids)))
    /\ UNCHANGED <<fixedVars, max_depth, elapsed, tx_cache, queue, visited,
                   tx_count, consecutive_electrs_failures, electrs_disabled,
                   lookups, coinjoin_txids, kycIdle, total_untraceable_sats,
                   total_traced_sats, start_value, last>>

KycInLoop ==
    /\ op = "kyc" /\ pc = "loop"
    /\ queue # <<>> /\ tx_count < MAX_TRANSACTIONS

\* line 845 fails
KycReturn ==
    /\ op = "kyc" /\ pc = "loop"
    /\ ~(queue # <<>> /\ tx_count < MAX_TRANSACTIONS)
    /\ KycFinish(warnings)

\* lines 847-850
KycTimedOut == elapsed > MAX_TRACE_TIME_SECONDS

KycTimeout ==
    /\ KycInLoop /\ KycTimedOut
    /\ KycFinish(Append(warnings, Warn("timeout", "", -1)))

KycIter == KycInLoop /\ ~KycTimedOut
KycIterFrame ==
    /\ UNCHANGED <<fixedVars, max_depth, kycIdle, start_value,
                   overall_privacy_score, privacy_rating>>

\* lines 858-859
KycVisited(e) == <<e.txid, e.vout>> \in visited

KycSkipVisited ==
    /\ KycIter /\ KycVisited(Cur)
    /\ queue' = Rest
    /\ warnings' = TruncWarnings(queue, warnings)
    /\ last' = Did("skip", Cur, FALSE, FALSE, FALSE)
    /\ KycIterFrame
    /\ UNCHANGED <<pc, elapsed, tx_cache, visited, tx_count,
                   consecutive_electrs_failures, electrs_disabled, lookups,
                   coinjoin_txids, destinations, total_untraceable_sats,
                   total_traced_sats, electrs_failures>>

\* line 863
KycBeyondDepth(e) == e.depth > max_depth

\* lines 863-879
KycDepthLimit ==
    /\ KycIter /\ ~KycVisited(Cur) /\ KycBeyondDepth(Cur)
    /\ queue' = Rest
    /\ visited' = visited \cup {<<Cur.txid, Cur.vout>>}
    /\ destinations' =
          IF Cur.path = <<>> THEN destinations
          ELSE LET c == CalculatePathConfidence(Cur.path, start_value) \div 2
               IN  Append(destinations,
                          ProbableDestination(Cur.path[Len(Cur.path)].address,
                                              Cur.value, c, GetConfidenceLevel(c),
                                              "depth_limit", Cur.cj_count, Cur.path))
    /\ warnings' = TruncWarnings(queue, warnings)
    /\ last' = Did("depth_limit", Cur, FALSE, FALSE, FALSE)
    /\ KycIterFrame
    /\ UNCHANGED <<pc, elapsed, tx_cache, tx_count,
                   consecutive_electrs_failures, electrs_disabled, lookups,
                   coinjoin_txids, total_untraceable_sats, total_traced_sats,
                   electrs_failures>>

\* lines 881-963.  Every queued txid was cached when it was queued (the seed
\* at line 807, a spending transaction inside _find_spending_tx), and every
\* queued index comes from enumerating that record's outputs, so the fetch
\* answers from the cache and the index is valid.
KycHasNode ==
    /\ KycIter /\ ~KycVisited(Cur) /\ ~KycBeyondDepth(Cur)
    /\ Cur.txid \in tx_cache
    /\ Cur.vout < Len(CurTx.vout)
\* the node of the current entry, built once from the popped entry and its
\* cached transaction
KycNode == CHOOSE n \in {PathNode(e, tx) : e \in {Cur}, tx \in {CurTx}} : TRUE
KycPath(n) == Append(Cur.path, n)

KycProcessed(act, checked, looked) ==
    /\ KycHasNode
    /\ visited' = visited \cup {<<Cur.txid, Cur.vout>>}
    /\ tx_count' = tx_count + 1
    /\ coinjoin_txids' = WithCoinjoin(coinjoin_txids, CurTx, Cur.txid,
                                       KycNode.is_coinjoin)
    /\ last' = Did(act, Cur, TRUE, checked, looked)
    /\ pc' = IF act = "raised" THEN "raised" ELSE pc
    /\ KycIterFrame

\* mutation: the cold test is dropped
KycNeverCold(n) == FALSE
\* line 966
KycIsCold(n) == n.cumulative_confidence < CONFIDENCE_COLD_THRESHOLD

\* lines 966-983
KycCold ==
    /\ KycProcessed("cold", FALSE, FALSE)
    /\ queue' = Rest
    /\ \E n \in {KycNode} : \E c \in {CalculatePathConfidence(KycPath(n), start_value)} :
          /\ KycIsCold(n)
          /\ destinations' = Append(destinations,
                ProbableDestination(n.address, n.value_sats, c,
                                    GetConfidenceLevel(c), "cold",
                                    n.coinjoin_count_in_path, KycPath(n)))
          /\ total_untraceable_sats' = total_untraceable_sats + n.value_sats
    /\ warnings' = TruncWarnings(queue, warnings)
    /\ UNCHANGED <<elapsed, tx_cache, consecutive_electrs_failures,
                   electrs_disabled, lookups, total_traced_sats, electrs_failures>>

KycWarm == KycHasNode /\ ~KycIsCold(KycNode)

\* line 986: rpc.get_tx_out raises; nothing in trace_kyc_withdrawal catches it
KycGetTxOutRaises ==
    /\ KycProcessed("raised", TRUE, FALSE)
    /\ KycWarm
    /\ queue' = Rest
    /\ \E dt \in {0, SlowCall} : elapsed' = Tick(dt)
    /\ warnings' = TruncWarnings(queue, warnings)
    /\ UNCHANGED <<tx_cache, consecutive_electrs_failures, electrs_disabled,
                   lookups, destinations, total_untraceable_sats,
                   total_traced_sats, electrs_failures>>

\* lines 988-1004
KycUnspent ==
    /\ KycProcessed("unspent", TRUE, FALSE)
    /\ KycWarm
    /\ <<Cur.txid, Cur.vout>> \in Chain.unspent
    /\ queue' = Rest
    /\ \E dt \in {0, SlowCall} : elapsed' = Tick(dt)
    /\ \E n \in {KycNode} : \E c \in {CalculatePathConfidence(KycPath(n), start_value)} :
          /\ destinations' = Append(destinations,
                ProbableDestination(n.address, n.value_sats, c,
                                    GetConfidenceLevel(c), "dead_end",
                                    n.coinjoin_count_in_path, KycPath(n)))
          /\ total_traced_sats' = total_traced_sats + n.value_sats
    /\ warnings' = TruncWarnings(queue, warnings)
    /\ UNCHANGED <<tx_cache, consecutive_electrs_failures, electrs_disabled,
                   lookups, total_untraceable_sats, electrs_failures>>

KycSpent == KycWarm /\ <<Cur.txid, Cur.vout>> \notin Chain.unspent

\* mutation: the breaker flag is not consulted
KycLookupIgnoringBreaker == electrs /\ KycNode.address # ""

\* line 1007
KycMayLookup == electrs /\ KycNode.address # "" /\ ~electrs_disabled

\* lines 1051-1066
KycSpentNoLookup ==
    /\ KycProcessed("spent", TRUE, FALSE)
    /\ KycSpent /\ ~KycMayLookup
    /\ queue' = Rest
    /\ \E dt \in {0, SlowCall} : elapsed' = Tick(dt)
    /\ \E n \in {KycNode} :
       \E c \in {CalculatePathConfidence(KycPath(n), start_value) \div 2} :
          destinations' = Append(destinations,
             ProbableDestination(n.address, n.value_sats, c,
                                 GetConfidenceLevel(c), "lost",
                                 n.coinjoin_count_in_path, KycPath(n)))
    /\ warnings' = TruncWarnings(queue, warnings)
    /\ UNCHANGED <<tx_cache, consecutive_electrs_failures, electrs_disabled,
                   lookups, total_untraceable_sats, total_traced_sats,
                   electrs_failures>>

\* lines 1015-1026
KycEnqueue(q, txid, tx, n) ==
    q \o SelectSeq([i \in 1..Len(tx.vout) |->
                      [txid |-> txid, vout |-> i - 1,
                       depth |-> Cur.depth + 1,
                       cj_count |-> n.coinjoin_count_in_path,
                       path |-> KycPath(n),
                       value |-> tx.vout[i].value,
                       confidence |-> n.cumulative_confidence]],
                   LAMBDA e : <<e.txid, e.vout>> \notin
                                    visited \cup {<<Cur.txid, Cur.vout>>})

\* the history transactions _find_spending_tx fetches (and caches) up to
\* and including the spending one (lines 730-742)
Scanned(txid, a, sp) ==
    LET h == HistoryOf(a)
        k == CHOOSE i \in DOMAIN h : h[i] = sp /\ \A j \in 1..(i - 1) : h[j] # sp
    IN  {h[i] : i \in {j \in 1..k : h[j] # txid /\ KnownTx(h[j])}}

\* lines 1008-1026
KycLookupFound ==
    /\ KycProcessed("spent", TRUE, TRUE)
    /\ KycSpent /\ KycMayLookup
    /\ \E n \in {KycNode} :
       \E sp \in {FindSpendingTx(Cur.txid, Cur.vout, n.address)} :
          /\ sp # ""
          /\ tx_cache' = tx_cache \cup Scanned(Cur.txid, n.address, sp)
          /\ queue' = KycEnqueue(Rest, sp, Chain.txs[sp], n)
    /\ lookups' = Append(lookups, "found")
    /\ consecutive_electrs_failures' = 0
    /\ \E dt \in {0, SlowCall} : elapsed' = Tick(dt)
    /\ warnings' = TruncWarnings(queue, warnings)
    /\ UNCHANGED <<electrs_disabled, destinations, total_untraceable_sats,
                   total_traced_sats, electrs_failures>>

\* lines 1027-1050.  _find_spending_tx returns None when the history holds no
\* spending transaction or is empty (counted = FALSE) and when the lookup
\* times out or raises (counted = TRUE, lines 747-766).
KycLookupFailed ==
    /\ KycProcessed("spent", TRUE, TRUE)
    /\ KycSpent /\ KycMayLookup
    /\ queue' = Rest
    /\ \E counted \in BOOLEAN :
          electrs_failures' = electrs_failures + (IF counted THEN 1 ELSE 0)
    /\ lookups' = Append(lookups, "failed")
    /\ consecutive_electrs_failures' = consecutive_electrs_failures + 1
    /\ electrs_disabled' = DisableAfter(consecutive_electrs_failures + 1)
    /\ warnings' = IF DisableAfter(consecutive_electrs_failures + 1)
                   THEN Append(TruncWarnings(queue, warnings),
                               Warn("electrs_disabled", "",
                                    consecutive_electrs_failures + 1))
                   ELSE TruncWarnings(queue, warnings)
    /\ \E dt \in {0, SlowCall} : elapsed' = Tick(dt)
    /\ \E n \in {KycNode} :
       \E c \in {(CalculatePathConfidence(KycPath(n), start_value) * 3) \div 10} :
          destinations' = Append(destinations,
             ProbableDestination(n.address, n.value_sats, c,
                                 "low", "lost",
                                 n.coinjoin_count_in_path, KycPath(n)))
    /\ UNCHANGED <<tx_cache, total_untraceable_sats, total_traced_sats>>

----------------------------------------------------------------------------
(* UTXOTracer.detect_peeling_chain                                         *)

\* line 743: the walk stops once it holds more than this many transactions
PEEL_SAFETY_LIMIT == 20

\* lines 678-681: spend_map, a dict filled in edge order, so the last edge
\* leaving a key is the one kept
SpendKeys(es) == {<<es[i].from_txid, es[i].from_vout>> : i \in DOMAIN es}
SpendMap(es, key) ==
    es[CHOOSE i \in DOMAIN es :
          /\ <<es[i].from_txid, es[i].from_vout>> = key
          /\ \A j \in DOMAIN es :
                <<es[j].from_txid, es[j].from_vout>> = key => j <= i]

\* lines 684-687: node_map, filled in node order
NodeKeys(ns) == {<<ns[i].txid, ns[i].vout>> : i \in DOMAIN ns}
NodeMap(ns, key) ==
    ns[CHOOSE i \in DOMAIN ns :
          /\ <<ns[i].txid, ns[i].vout>> = key
          /\ \A j \in DOMAIN ns : <<ns[j].txid, ns[j].vout>> = key => j <= i]

\* lines 716, 722-727: the nodes of the spending transaction are copied into
\* a new list, which is sorted by value (stable); payment is its first
\* element and change its last
SpendingOutputs(ns, txid) == {i \in DOMAIN ns : ns[i].txid = txid}
PaymentOf(ns, outs) ==
    ns[CHOOSE i \in outs :
          \A j \in outs : \/ ns[i].value_sats < ns[j].value_sats
                          \/ (ns[i].value_sats = ns[j].value_sats /\ i <= j)]
\* mutation: the walk follows the smallest output
ChangeIsSmallest(ns, outs) == PaymentOf(ns, outs)
ChangeOf(ns, outs) ==
    ns[CHOOSE i \in outs :
          \A j \in outs : \/ ns[i].value_sats > ns[j].value_sats
                          \/ (ns[i].value_sats = ns[j].value_sats /\ i >= j)]

\* lines 706-744: the walk along the change outputs
RECURSIVE PeelWalk(_, _, _, _, _, _)
PeelWalk(ns, es, current_key, seen, chain_txids, payments) ==
    IF current_key \notin SpendKeys(es) \/ current_key \in seen
    THEN [chain_txids |-> chain_txids, payments |-> payments,
          current_key |-> current_key]
    ELSE LET spending_txid == SpendMap(es, current_key).to_txid
             outs == SpendingOutputs(ns, spending_txid)
             txids == Append(chain_txids, spending_txid)
         IN  IF outs = {}
             THEN [chain_txids |-> txids, payments |-> payments,
                   current_key |-> current_key]
             ELSE IF Cardinality(outs) = 1
             THEN [chain_txids |-> txids,
                   payments |-> Append(payments, PaymentOf(ns, outs).value_sats),
                   current_key |-> current_key]
             ELSE IF Len(txids) > PEEL_SAFETY_LIMIT
             THEN [chain_txids |-> txids,
                   payments |-> Append(payments, PaymentOf(ns, outs).value_sats),
                   current_key |-> <<ChangeOf(ns, outs).txid, ChangeOf(ns, outs).vout>>]
             ELSE PeelWalk(ns, es,
                           <<ChangeOf(ns, outs).txid, ChangeOf(ns, outs).vout>>,
                           seen \cup {current_key}, txids,
                           Append(payments, PaymentOf(ns, outs).value_sats))

RECURSIVE SumSeq(_, _)
SumSeq(q, i) == IF i > Len(q) THEN 0 ELSE q[i] + SumSeq(q, i + 1)

\* lines 772-776: how many payments lie within 50% of the average, i.e.
\* |p - sum/n| / (sum/n) < 0.5, written without the divisions
SimilarPayments(payments) ==
    Cardinality({i \in DOMAIN payments :
        LET d == payments[i] * Len(payments) - SumSeq(payments, 1)
        IN  2 * (IF d < 0 THEN -d ELSE d) < SumSeq(payments, 1)})

\* lines 762-792: confidence in thousandths
PeelConfidence(chain_length, payments) ==
    LET len == IF chain_length >= 5 THEN 200 ELSE 100
        sim == IF payments = <<>> THEN 0
               ELSE IF 10 * SimilarPayments(payments) > 7 * Len(payments) THEN 200
               ELSE IF 2 * SimilarPayments(payments) > Len(payments) THEN 100
               ELSE 0
    IN  Min(950, 500 + len + sim + 100)

\* lines 808-830.  confidence_score is a float sum: where the terms add up
\* to 0.8 (0.5 + 0.2 + 0.1 and 0.5 + 0.1 + 0.1 + 0.1) the sum is
\* 0.7999999999999999, which fails `>= 0.8` although it is returned as 0.8;
\* every other sum compares as its decimal value does.
PeelImpact(is_chain, confidence) ==
    IF ~is_chain THEN "low"
    ELSE IF confidence > 800 THEN "critical"
    ELSE "high"

PeelVerdict(is_chain, chain_length, txids, confidence, peeled, remaining, raised) ==
    [done |-> TRUE, raised |-> raised, is_peeling_chain |-> is_chain,
     chain_length |-> chain_length, transactions |-> txids,
     confidence |-> confidence, total_peeled_sats |-> peeled,
     remaining_sats |-> remaining,
     privacy_impact |-> IF raised \/ chain_length < 3 THEN "none"
                        ELSE PeelImpact(is_chain, confidence)]

\* lines 639-850.  The division by the average payment (line 774) raises
\* ZeroDivisionError when every payment is 0.
DetectPeelingChainResult(ns, es, start_txid, start_vout) ==
    IF Len(es) < 2 \/ <<start_txid, start_vout>> \notin NodeKeys(ns)
    THEN PeelVerdict(FALSE, 0, <<>>, 0, 0, 0, FALSE)
    ELSE LET w == PeelWalk(ns, es, <<start_txid, start_vout>>, {}, <<>>, <<>>)
             n == Len(w.chain_txids)
             c == PeelConfidence(n, w.payments)
         IN  IF n < 3
             THEN PeelVerdict(FALSE, n, w.chain_txids, 0,
                              SumSeq(w.payments, 1), 0, FALSE)
             ELSE IF w.payments # <<>> /\ SumSeq(w.payments, 1) = 0
             THEN PeelVerdict(FALSE, n, w.chain_txids, 0, 0, 0, TRUE)
             ELSE PeelVerdict(c >= 600, n, w.chain_txids, c,
                              SumSeq(w.payments, 1),
                              IF /\ w.current_key \in NodeKeys(ns)
                                 /\ NodeMap(ns, w.current_key).status = "unspent"
                              THEN NodeMap(ns, w.current_key).value_sats ELSE 0,
                              FALSE)

\* mutation: the nodes of the trace are sorted in place
DetectSortsTrace ==
    /\ nodes' = [k \in 1..Len(nodes) |->
                   nodes[CHOOSE i \in DOMAIN nodes :
                      Cardinality({j \in DOMAIN nodes :
                         \/ nodes[j].value_sats < nodes[i].value_sats
                         \/ (nodes[j].value_sats = nodes[i].value_sats /\ j < i)})
                      = k - 1]]
    /\ UNCHANGED <<edges, unspent_endpoints, coinbase_origins, coinjoin_txids,
                   total_value_traced_sats, warnings, hit_limit, tx_count>>
\* lines 676-744: the detector builds its own dicts and lists (spend_map,
\* node_map, spending_outputs) and assigns to no field of trace_result
DetectFrame ==
    UNCHANGED <<nodes, edges, unspent_endpoints, coinbase_origins,
                coinjoin_txids, total_value_traced_sats, warnings, hit_limit,
                tx_count>>

\* detect_peeling_chain called on the TraceResult a trace returned
DetectPeelingChain ==
    /\ op \in {"forward", "backward"} /\ pc = "returned" /\ ~peeling.done
    /\ peeling' = DetectPeelingChainResult(nodes, edges, args.txid,
                                           IF op = "forward" THEN args.vout ELSE 0)
    /\ DetectFrame
    /\ UNCHANGED <<runVars, prox, pc, max_depth, elapsed, tx_cache, queue, visited,
                   consecutive_electrs_failures, electrs_disabled, lookups,
                   kycVars, last>>

----------------------------------------------------------------------------
(* PrivacyAnalyzer.analyze_exchange_proximity                              *)

MAX_EXCHANGE_HOPS == 6
MAX_ADDRESSES_TO_VISIT == 10
MAX_ANALYSIS_SECONDS == 15

\* the registry, cut down to two of its entries (addresses abbreviated)
KNOWN_EXCHANGE_ADDRESSES ==
    [ex1 |-> [exchange |-> "Binance", type |-> "cold_wallet"],
     ex2 |-> [exchange |-> "Coinbase", type |-> "hot_wallet"]]

\* mutation: no address is recognised
IsKnownExchangeNever(address) == FALSE
\* _is_known_exchange: whether the registry has an entry for the address
IsKnownExchange(address) == address \in DOMAIN KNOWN_EXCHANGE_ADDRESSES

\* PrivacyAnalyzer._calculate_coinjoin_score, in hundredths
ProxCoinjoinScore(tx) ==
    LET pos == SelectSeq(tx.vout, LAMBDA o : o.value > 0)
    IN  IF Len(tx.vin) < 2 \/ Len(tx.vout) < 2 \/ pos = <<>> THEN 0
        ELSE IF 10 * MaxEqual(pos) > 8 * Len(pos) /\ MaxEqual(pos) >= 3 THEN 90
        ELSE IF 2 * MaxEqual(pos) > Len(pos) /\ MaxEqual(pos) >= 2 THEN 70
        ELSE IF MaxEqual(pos) >= 2 THEN 40
        ELSE 10

ExchangeHop(txid, address, value, direction, hop_number, tx) ==
    [txid |-> txid, address |-> address, value_sats |-> value,
     direction |-> direction, hop_number |-> hop_number,
     is_coinjoin |-> ProxCoinjoinScore(tx) >= 70]

FirstFive(q) == SubSeq(q, 1, Min(5, Len(q)))
\* line 1134: the last five transactions backward, the first five forward
TxsToCheck(history, direction) ==
    IF direction = "backward"
    THEN SubSeq(history, Max(1, Len(history) - 4), Len(history))
    ELSE FirstFive(history)

\* lines 1146-1160: the inputs of tx whose previous output has an address
BackwardHops(txid, depth) ==
    LET spendable(v) ==
            /\ ~v.coinbase /\ KnownTx(v.txid)
            /\ v.vout < Len(Chain.txs[v.txid].vout)
            /\ Chain.txs[v.txid].vout[v.vout + 1].address # ""
        sel == SelectSeq(FirstFive(Chain.txs[txid].vin), spendable)
    IN  [i \in 1..Len(sel) |->
            ExchangeHop(txid, Chain.txs[sel[i].txid].vout[sel[i].vout + 1].address,
                        Chain.txs[sel[i].txid].vout[sel[i].vout + 1].value,
                        "received_from", depth + 1, Chain.txs[txid])]
\* lines 1227-1232: the outputs of tx paying another address
ForwardHops(txid, depth, current_addr) ==
    LET other(o) == o.address # "" /\ o.address # current_addr
        sel == SelectSeq(FirstFive(Chain.txs[txid].vout), other)
    IN  [i \in 1..Len(sel) |->
            ExchangeHop(txid, sel[i].address, sel[i].value, "sent_to",
                        depth + 1, Chain.txs[txid])]
\* lines 1136-1296: the hops met in one iteration, in the order met
RECURSIVE HopsOf(_, _, _, _, _)
HopsOf(txids, i, depth, direction, current_addr) ==
    IF i > Len(txids) THEN <<>>
    ELSE (IF ~KnownTx(txids[i]) THEN <<>>
          ELSE IF direction = "backward" THEN BackwardHops(txids[i], depth)
          ELSE ForwardHops(txids[i], depth, current_addr))
         \o HopsOf(txids, i + 1, depth, direction, current_addr)
\* the _get_transaction calls of one iteration (lines 1140, 1154)
RECURSIVE TxQueries(_, _, _, _)
TxQueries(txids, i, direction, node_ok) ==
    IF i > Len(txids) THEN 0
    ELSE 1 + (IF node_ok /\ KnownTx(txids[i]) /\ direction = "backward"
              THEN Len(SelectSeq(FirstFive(Chain.txs[txids[i]].vin),
                                 LAMBDA v : ~v.coinbase))
              ELSE 0)
         + TxQueries(txids, i + 1, direction, node_ok)

\* calculate_path_quality (lines 1322-1381); the mocked histories carry no
\* block heights, so the age factor does not apply
PathQualityScore(path) ==
    Max(0, Min(100,
        100 - 30 * Len(SelectSeq(path, LAMBDA h : h.is_coinjoin))
            - (IF Len(path) > 6 THEN 10 ELSE 0)))
PathStrength(score) ==
    IF score >= 85 THEN "STRONG"
    ELSE IF score >= 60 THEN "MODERATE"
    ELSE IF score >= 30 THEN "WEAK"
    ELSE "BROKEN"

\* lines 1044-1081: the seed is itself a registered exchange address
ProxStartExchange ==
    /\ op = "proximity" /\ pc = "start"
    /\ IsKnownExchange(args.address)
    /\ pc' = "returned"
    /\ prox' = [prox EXCEPT !.result =
          [hops_to_exchange |-> 0,
           nearest_exchange |-> KNOWN_EXCHANGE_ADDRESSES[args.address].exchange,
           direction |-> "is_exchange", proximity_score |-> 100,
           risk_level |-> "critical", path_quality_score |-> 100,
           path_strength |-> "STRONG", coinjoin_count_in_path |-> 0]]
    /\ warnings' = <<Warn("is_exchange", "", -1)>>
    /\ max_depth' = IF args.max_depth = 0 THEN MAX_EXCHANGE_HOPS ELSE args.max_depth
    /\ UNCHANGED <<runVars, peeling, elapsed, tx_cache, queue, visited, tx_count,
                   consecutive_electrs_failures, electrs_disabled, lookups,
                   kycIdle, coinjoin_txids, kycVars, last>>

\* lines 1084-1101: the block height is asked for (a failure is swallowed)
\* and the search is seeded in both directions
ProxStart ==
    /\ op = "proximity" /\ pc = "start"
    /\ ~IsKnownExchange(args.address)
    /\ pc' = "loop"
    /\ max_depth' = IF args.max_depth = 0 THEN MAX_EXCHANGE_HOPS ELSE args.max_depth
    /\ prox' = [prox EXCEPT !.queries.height = @ + 1]
    /\ queue' = <<[addr |-> args.address, depth |-> 0, direction |-> "backward",
                   path |-> <<>>],
                  [addr |-> args.address, depth |-> 0, direction |-> "forward",
                   path |-> <<>>]>>
    /\ \E dt \in {0, SlowCall} : elapsed' = Tick(dt)
    /\ UNCHANGED <<runVars, peeling, tx_cache, visited, tx_count,
                   consecutive_electrs_failures, electrs_disabled, lookups,
                   kycIdle, coinjoin_txids, warnings, kycVars, last>>

\* mutation: the search ends at the first exchange found
ProxStopsAtFirst ==
    /\ queue # <<>> /\ prox.addresses_checked < MAX_ADDRESSES_TO_VISIT
    /\ prox.nearest_hops = -1
\* line 1112: the condition of the while loop
ProxContinues ==
    queue # <<>> /\ prox.addresses_checked < MAX_ADDRESSES_TO_VISIT

ProxInLoop == op = "proximity" /\ pc = "loop" /\ ProxContinues

\* lines 1484-1548: proximity score, risk level and path quality
ProxResult(p) ==
    LET q == IF p.nearest_path # <<>> THEN PathQualityScore(p.nearest_path) ELSE 0
        h == p.nearest_hops
    IN  [hops_to_exchange |-> h, nearest_exchange |-> p.nearest_exchange,
         direction |-> p.nearest_direction,
         proximity_score |-> IF h = -1 THEN 0 ELSE IF h = 1 THEN 90
                             ELSE IF h = 2 THEN 70 ELSE IF h <= 4 THEN 50 ELSE 30,
         risk_level |-> IF h = -1 THEN "low" ELSE IF h = 1 THEN "critical"
                        ELSE IF h = 2 THEN "high" ELSE IF h <= 4 THEN "medium"
                        ELSE "low",
         path_quality_score |-> q,
         path_strength |-> IF p.nearest_path # <<>> THEN PathStrength(q)
                           ELSE "UNKNOWN",
         coinjoin_count_in_path |->
             Len(SelectSeq(p.nearest_path, LAMBDA x : x.is_coinjoin))]
\* lines 1302-1305 and 1484-1548: the statements after the loop
ProxFinish(p, w) ==
    /\ pc' = "returned"
    /\ prox' = [p EXCEPT
          !.search_exhausted =
              @ \/ p.addresses_checked >= MAX_ADDRESSES_TO_VISIT,
          !.result = ProxResult(p)]
    /\ warnings' =
          (IF p.addresses_checked >= MAX_ADDRESSES_TO_VISIT
           THEN Append(w, Warn("address_limit", "", -1)) ELSE w)
          \o (IF p.nearest_hops = 1 THEN <<Warn("direct_exchange", "", 1)>>
              ELSE IF p.nearest_hops = 2 THEN <<Warn("near_exchange", "", 2)>>
              ELSE <<>>)
    /\ UNCHANGED <<runVars, peeling, max_depth, elapsed, tx_cache, queue,
                   visited, tx_count, consecutive_electrs_failures,
                   electrs_disabled, lookups, kycIdle, coinjoin_txids,
                   kycVars, last>>

\* line 1112 fails
ProxReturn ==
    /\ op = "proximity" /\ pc = "loop"
    /\ ~ProxContinues
    /\ ProxFinish(prox, warnings)

\* lines 1114-1118
ProxTimeout ==
    /\ ProxInLoop /\ elapsed > MAX_ANALYSIS_SECONDS
    /\ ProxFinish([prox EXCEPT !.search_exhausted = TRUE],
                  Append(warnings, Warn("timeout", "", -1)))

ProxIter == ProxInLoop /\ elapsed <= MAX_ANALYSIS_SECONDS
ProxSkips(e) ==
    e.depth >= max_depth \/ <<e.addr, e.direction>> \in visited

\* lines 1120-1127: the entry is too deep or was visited
ProxSkip ==
    /\ ProxIter /\ ProxSkips(Head(queue))
    /\ queue' = Tail(queue)
    /\ UNCHANGED <<fixedVars, pc, max_depth, elapsed, tx_cache, visited,
                   tx_count, consecutive_electrs_failures, electrs_disabled,
                   lookups, kycIdle, coinjoin_txids, warnings, kycVars, last>>

\* lines 1128-1296: the address is visited: its history is asked for
\* (unless there is no index client), the transactions of the history are
\* fetched, registered addresses met are recorded as paths and the other
\* addresses are queued.  history_ok and node_ok say whether the index and
\* the node answer during this iteration.
ProxVisit ==
    /\ ProxIter /\ ~ProxSkips(Head(queue))
    /\ \E history_ok, node_ok \in BOOLEAN :
       \E e \in {Head(queue)} :
       \E txids \in {IF electrs /\ history_ok
                     THEN TxsToCheck(HistoryOf(e.addr), e.direction) ELSE <<>>} :
       \E hops \in {IF node_ok
                    THEN HopsOf(txids, 1, e.depth, e.direction, e.addr)
                    ELSE <<>>} :
          LET found == SelectSeq(hops, LAMBDA h : IsKnownExchange(h.address))
              others == SelectSeq(hops, LAMBDA h : ~IsKnownExchange(h.address))
              closer == /\ found # <<>>
                        /\ (prox.nearest_hops = -1 \/ e.depth + 1 < prox.nearest_hops)
          IN  /\ prox' = [prox EXCEPT
                    !.addresses_checked = @ + 1,
                    !.queries.history = @ + (IF electrs THEN 1 ELSE 0),
                    !.queries.tx = @ + TxQueries(txids, 1, e.direction, node_ok),
                    !.all_paths_found = @ \o
                        [i \in 1..Len(found) |->
                            [path |-> Append(e.path, found[i]),
                             exchange |->
                                KNOWN_EXCHANGE_ADDRESSES[found[i].address].exchange,
                             hops |-> e.depth + 1,
                             direction |-> found[i].direction]],
                    !.nearest_hops = IF closer THEN e.depth + 1 ELSE @,
                    !.nearest_exchange =
                        IF closer
                        THEN KNOWN_EXCHANGE_ADDRESSES[found[1].address].exchange
                        ELSE @,
                    !.nearest_direction = IF closer THEN found[1].direction ELSE @,
                    !.nearest_path = IF closer THEN Append(e.path, found[1]) ELSE @]
              /\ queue' = Tail(queue) \o
                    (IF prox.addresses_checked + 1 < MAX_ADDRESSES_TO_VISIT
                     THEN [i \in 1..Len(others) |->
                             [addr |-> others[i].address, depth |-> e.depth + 1,
                              direction |-> e.direction,
                              path |-> Append(e.path, others[i])]]
                     ELSE <<>>)
              /\ visited' = visited \cup {<<e.addr, e.direction>>}
    /\ \E dt \in {0, SlowCall} : elapsed' = Tick(dt)
    /\ UNCHANGED <<runVars, peeling, pc, max_depth, tx_cache, tx_count,
                   consecutive_electrs_failures, electrs_disabled, lookups,
                   kycIdle, coinjoin_txids, warnings, kycVars, last>>

----------------------------------------------------------------------------
----------------------------------------------------------------------------
(* Calls of CoinJoinDetector.analyze_transaction                           *)

\* get_detector() returns the module's singleton; CoinJoinDetector() makes a
\* new object.  __init__ stores a reference to the one COINJOIN_CONFIGS
\* dict in either.
DetectorInstances == {"singleton", "fresh"}

classifyFrame ==
    UNCHANGED <<op, args, chain, electrs, fulcrum, session, sideVars, peeling, prox,
                max_depth,
                elapsed, tx_cache, queue, visited, tx_count,
                consecutive_electrs_failures, electrs_disabled, lookups,
                kycIdle, coinjoin_txids, warnings, kycVars, last>>

\* one call of analyze_transaction: it reads self.config and the record,
\* and assigns to locals only
AnalyzeTransactionCall ==
    /\ op = "classify" /\ pc \in {"start", "loop"}
    /\ Len(detector.calls) < MaxCalls
    /\ \E inst \in DetectorInstances, name \in DetectorInputs :
       \E r \in {AnalyzeTransaction(detector.config, detector.calls,
                                    DetectorInput(name))} :
          detector' = [detector EXCEPT !.calls =
              Append(@, [instance |-> inst, tx |-> name, score |-> r.score,
                         protocol |-> r.protocol, confidence |-> r.confidence])]
    /\ pc' = "loop"
    /\ classifyFrame

\* the client is done with the detector
ClassifyReturn ==
    /\ op = "classify" /\ pc = "loop"
    /\ pc' = "returned"
    /\ UNCHANGED detector
    /\ classifyFrame

----------------------------------------------------------------------------
(* get_tracer / get_kyc_tracer: the next request                           *)

\* The API handlers take the tracer from get_tracer() (forward and backward
\* traces) or get_kyc_tracer(): one object per process, created on first
\* use.  A later request calls a trace method of the same object: the
\* method's locals start afresh, the attributes of the object (_tx_cache,
\* _electrs) are what the earlier call left.
NextTraversal ==
    /\ op \in {"forward", "backward", "kyc"} /\ pc = "returned"
    /\ session.call < MaxTraversals /\ chain \in RepeatChains
    /\ op' \in (IF op = "kyc" THEN {"kyc"} ELSE {"forward", "backward"})
    /\ \E s \in Chain.starts,
          d \in (IF op = "kyc" THEN {0} ELSE Chain.depths),
          p \in (IF op = "kyc" THEN Chain.presets ELSE {"standard"}) :
          args' = [txid |-> s[1], vout |-> s[2], max_depth |-> d,
                   address |-> Chain.dest, preset |-> p]
    /\ session' = [call |-> session.call + 1, inherited |-> tx_cache]
    /\ pc' = "start"
    /\ max_depth' = 0
    /\ elapsed' = 0
    /\ queue' = <<>>
    /\ visited' = {}
    /\ tx_count' = 0
    /\ consecutive_electrs_failures' = 0
    /\ electrs_disabled' = FALSE
    /\ lookups' = <<>>
    /\ nodes' = <<>>
    /\ edges' = <<>>
    /\ unspent_endpoints' = <<>>
    /\ coinbase_origins' = <<>>
    /\ coinjoin_txids' = <<>>
    /\ total_value_traced_sats' = 0
    /\ warnings' = <<>>
    /\ hit_limit' = FALSE
    /\ destinations' = <<>>
    /\ total_untraceable_sats' = 0
    /\ total_traced_sats' = 0
    /\ start_value' = 0
    /\ electrs_failures' = 0
    /\ overall_privacy_score' = 0
    /\ privacy_rating' = "unknown"
    /\ peeling' = NoPeeling
    /\ last' = NoLast
    /\ UNCHANGED <<chain, electrs, tx_cache, prox, detector, fulcrum, sideVars>>

----------------------------------------------------------------------------
(* Two requests on get_kyc_tracer(): trace_kyc_withdrawal run concurrently *)

\* The API handlers (api/kyc.py 178-188, 254-264, 323-326) await
\* trace_kyc_withdrawal on the one KYCPrivacyTracer of get_kyc_tracer()
\* (kyc_trace.py 1534-1543); the event loop switches between two such
\* coroutines at every await of a collaborator call.  Of each coroutine the
\* steps that touch self._electrs_failures are kept: `failed` counts the
\* coroutine's own failed lookups, `reported` is the N of its warning (0 when
\* no warning is appended).
pairFrame ==
    UNCHANGED <<op, args, chain, electrs, detector, fulcrum, session, job, peeling,
                prox, max_depth, elapsed, tx_cache, queue, visited, tx_count,
                consecutive_electrs_failures, electrs_disabled, lookups,
                kycIdle, coinjoin_txids, warnings, kycVars, last>>

\* line 786: the counter is reset when a trace starts
KycCallStart ==
    /\ op = "kyc_pair" /\ pc \in {"start", "loop"}
    /\ \E c \in KycCallers :
          /\ kyc_calls.call[c].pc = "idle"
          /\ kyc_calls' =
                [kyc_calls EXCEPT
                    !.failures = 0,
                    !.overlapped = @ \/ \E o \in KycCallers :
                                           kyc_calls.call[o].pc = "tracing",
                    !.call[c].pc = "tracing"]
    /\ pc' = "loop"
    /\ pairFrame

\* _find_spending_tx, lines 747-766: a lookup of the trace times out or
\* raises, and the counter of the tracer is incremented
KycCallLookupFailed ==
    /\ op = "kyc_pair" /\ pc = "loop"
    /\ \E c \in KycCallers :
          /\ kyc_calls.call[c].pc = "tracing"
          /\ kyc_calls.call[c].failed < MaxFailedLookups
          /\ kyc_calls' = [kyc_calls EXCEPT !.failures = @ + 1,
                                            !.call[c].failed = @ + 1]
    /\ pc' = pc
    /\ pairFrame

\* lines 1073-1077: the counter is read into the warning and reset
KycCallFinish ==
    /\ op = "kyc_pair" /\ pc = "loop"
    /\ \E c \in KycCallers :
          /\ kyc_calls.call[c].pc = "tracing"
          /\ kyc_calls' = [kyc_calls EXCEPT !.failures = 0,
                                            !.call[c].pc = "returned",
                                            !.call[c].reported = kyc_calls.failures]
    /\ pc' = pc
    /\ pairFrame

\* both requests are answered
KycPairReturn ==
    /\ op = "kyc_pair" /\ pc = "loop"
    /\ \A c \in KycCallers : kyc_calls.call[c].pc = "returned"
    /\ pc' = "returned"
    /\ UNCHANGED kyc_calls
    /\ pairFrame

----------------------------------------------------------------------------
(* api/jobs.py: run_trace_job and cancel_job on one AnalysisJob row         *)

\* The background task and the DELETE handler each open their own session
\* (get_db) and meet in the row only; each commit is one step.
jobFrame ==
    UNCHANGED <<op, args, chain, electrs, detector, fulcrum, session, kyc_calls,
                peeling, prox, max_depth, elapsed, tx_cache, queue, visited,
                tx_count, consecutive_electrs_failures, electrs_disabled,
                lookups, kycIdle, coinjoin_txids, warnings, kycVars, last>>

\* run_trace_job, lines 51-57: the row is loaded and, whatever its status,
\* set to "running"
RunTraceJobStart ==
    /\ op = "job" /\ pc \in {"start", "loop"}
    /\ job.task = "queued"
    /\ job' = [job EXCEPT !.status = "running", !.task = "running"]
    /\ pc' = "loop"
    /\ jobFrame

\* lines 59-75: the trace returns and the result is saved
RunTraceJobCompleted ==
    /\ op = "job" /\ pc = "loop"
    /\ job.task = "running"
    /\ job' = [job EXCEPT !.status = "completed", !.task = "done"]
    /\ pc' = pc
    /\ jobFrame

\* lines 77-84: the trace raised
RunTraceJobFailed ==
    /\ op = "job" /\ pc = "loop"
    /\ job.task = "running"
    /\ job' = [job EXCEPT !.status = "failed", !.task = "done"]
    /\ pc' = pc
    /\ jobFrame

\* cancel_job, lines 324-343: refused with 400 for a completed, failed or
\* cancelled job, otherwise the row is set to "cancelled"; the task is not
\* told
CancelJob ==
    /\ op = "job" /\ pc \in {"start", "loop"}
    /\ job.requests < MaxCancelRequests
    /\ job' = [job EXCEPT
                  !.status = IF @ \in {"completed", "failed", "cancelled"}
                             THEN @ ELSE "cancelled",
                  !.requests = @ + 1]
    /\ pc' = "loop"
    /\ jobFrame

\* the task has ended and no further request is made
JobReturn ==
    /\ op = "job" /\ pc = "loop"
    /\ job.task = "done"
    /\ pc' = "returned"
    /\ UNCHANGED job
    /\ jobFrame

----------------------------------------------------------------------------
(* FulcrumClient and the callers of its address-index requests            *)

\* The callers that put an asyncio.wait_for around a request: 30 s in
\* UTXOTracer._find_spending_tx_electrs (tracer.py 242-245), 20 s in
\* KYCPrivacyTracer._find_spending_tx (kyc_trace.py 721-724), 2 s in
\* PrivacyAnalyzer._get_address_history (privacy_analysis.py 543-546).  The
\* client's own read timeout (fulcrum.py 375-378) is 120 s and so never
\* ends a request first.
IndexCallers == {"forward", "kyc", "proximity"}

\* whether the caller's except branch for the timeout calls
\* electrs.disconnect(): tracer.py 251-258 and kyc_trace.py 746-754 do,
\* privacy_analysis.py 547-549 only logs and returns []
DisconnectsOnTimeout(caller) == caller \in {"forward", "kyc"}

indexFrame ==
    UNCHANGED <<op, args, chain, electrs, detector, session, sideVars, peeling, prox,
                max_depth, elapsed, tx_cache, queue, visited, tx_count,
                consecutive_electrs_failures, electrs_disabled, lookups,
                kycIdle, coinjoin_txids, warnings, kycVars, last>>

\* connect(), lines 219-235: a live connection is kept, otherwise a new
\* socket is opened (conn counts the sockets, nothing is unread on a new one)
Connect(f) ==
    IF f.connected THEN f
    ELSE [f EXCEPT !.connected = TRUE, !.conn = @ + 1, !.unread = <<>>]

\* disconnect(), lines 245-260
Disconnect(f) ==
    [f EXCEPT !.connected = FALSE, !.handshake_complete = FALSE, !.unread = <<>>]

\* _perform_handshake, lines 275-285: server.version is written with the
\* next id
HandshakeSent(f) ==
    [f EXCEPT !.request_id = @ + 1,
              !.unread = Append(@, f.request_id + 1),
              !.wire = Append(@, [conn |-> f.conn, method |-> "server.version"])]

\* _perform_handshake, lines 269-312, when it returns True: nothing is sent
\* if the flag is set, otherwise the request is written, a line is read and
\* the flag is set
HandshakeDone(f) ==
    IF f.handshake_complete THEN f
    ELSE [HandshakeSent(f) EXCEPT !.unread = Tail(@),
                                  !.handshake_complete = TRUE]

\* _call_once, lines 350-372: connect, handshake if it is not done, then the
\* request gets the next id and is written
Sent(f) ==
    LET h == HandshakeDone(Connect(f))
    IN  [h EXCEPT !.request_id = @ + 1,
                  !.unread = Append(@, h.request_id + 1),
                  !.wire = Append(@, [conn |-> h.conn, method |-> "request"])]

Logged(f, caller, id, outcome, read) ==
    [f EXCEPT !.log = Append(@, [caller |-> caller, id |-> id,
                                 outcome |-> outcome, read |-> read])]

\* a request that is answered in time: readline (375-378) returns the next
\* line on the socket, and the result is returned without comparing the
\* response's id with the request's (380-392)
IndexRequestAnswered ==
    /\ op = "index" /\ pc \in {"start", "loop"}
    /\ Len(fulcrum.log) < MaxRequests
    /\ \E caller \in IndexCallers :
          fulcrum' = Logged([Sent(fulcrum) EXCEPT !.unread = Tail(@)],
                            caller, Sent(fulcrum).request_id, "answered",
                            Head(Sent(fulcrum).unread))
    /\ pc' = "loop"
    /\ indexFrame

\* the caller's wait_for expires while readline is awaited: the request
\* coroutine is cancelled (CancelledError is not an Exception, so no except
\* branch of _call_once runs and the lock is released), the caller's except
\* branch runs; the server may still answer the request (late) or not
IndexRequestAbandoned ==
    /\ op = "index" /\ pc \in {"start", "loop"}
    /\ Len(fulcrum.log) < MaxRequests
    /\ \E caller \in IndexCallers, late \in BOOLEAN :
          fulcrum' =
             Logged(IF DisconnectsOnTimeout(caller) THEN Disconnect(Sent(fulcrum))
                    ELSE [Sent(fulcrum) EXCEPT
                             !.unread = IF late THEN @
                                        ELSE SubSeq(@, 1, Len(@) - 1)],
                    caller, Sent(fulcrum).request_id, "abandoned", -1)
    /\ pc' = "loop"
    /\ indexFrame

\* an attempt of _call whose handshake fails (no answer within 10 s, an
\* empty line or an error answer, lines 289-317): _call_once raises
\* FulcrumError (356-358) and _call disconnects (333-338)
IndexHandshakeFailed ==
    /\ op = "index" /\ pc \in {"start", "loop"}
    /\ Len(fulcrum.log) < MaxRequests
    /\ ~Connect(fulcrum).handshake_complete
    /\ \E caller \in IndexCallers :
          fulcrum' = Logged(Disconnect(HandshakeSent(Connect(fulcrum))),
                            caller, fulcrum.request_id + 1,
                            "handshake_failed", -1)
    /\ pc' = "loop"
    /\ indexFrame

\* server_version(), lines 573-581, as check_fulcrum_connection calls it
\* after connect() (1099-1108): the cached answer of the handshake, which is
\* performed first if it is not done
ServerVersion ==
    /\ op = "index" /\ pc \in {"start", "loop"}
    /\ Len(fulcrum.log) < MaxRequests
    /\ fulcrum' = Logged(HandshakeDone(Connect(fulcrum)), "health",
                         HandshakeDone(Connect(fulcrum)).request_id,
                         "version", -1)
    /\ pc' = "loop"
    /\ indexFrame

\* server_version() whose handshake fails: FulcrumError is raised inside
\* the lock (578-579) and nothing disconnects, so the socket stays open
\* with the flag unset; the answer may still arrive (late) or not
ServerVersionHandshakeFailed ==
    /\ op = "index" /\ pc \in {"start", "loop"}
    /\ Len(fulcrum.log) < MaxRequests
    /\ ~Connect(fulcrum).handshake_complete
    /\ \E late \in BOOLEAN :
          fulcrum' =
             Logged([HandshakeSent(Connect(fulcrum)) EXCEPT
                        !.unread = IF late THEN @
                                   ELSE SubSeq(@, 1, Len(@) - 1)],
                    "health", fulcrum.request_id + 1, "version_failed", -1)
    /\ pc' = "loop"
    /\ indexFrame

\* no further request is made
IndexReturn ==
    /\ op = "index" /\ pc = "loop"
    /\ pc' = "returned"
    /\ UNCHANGED fulcrum
    /\ indexFrame

Next ==
    \/ FwdStart \/ FwdReturn \/ FwdTimeout \/ FwdSkipVisited \/ FwdDepthLimit
    \/ FwdTxNotFound \/ FwdInvalidVout \/ FwdGetTxOutRaises \/ FwdUnspent
    \/ FwdSpentNoLookup \/ FwdLookupFound \/ FwdLookupFoundTxMissing
    \/ FwdLookupFailed
    \/ BwdStart \/ BwdReturn \/ BwdSkipVisited \/ BwdDepthLimit \/ BwdTxNotFound
    \/ BwdCoinbase \/ BwdSpent
    \/ KycStartTxNotFound \/ KycStartNoOutput \/ KycStart \/ KycReturn
    \/ KycTimeout \/ KycSkipVisited \/ KycDepthLimit \/ KycCold
    \/ KycGetTxOutRaises \/ KycUnspent \/ KycSpentNoLookup \/ KycLookupFound
    \/ KycLookupFailed
    \/ DetectPeelingChain
    \/ ProxStartExchange \/ ProxStart \/ ProxReturn \/ ProxTimeout \/ ProxSkip
    \/ ProxVisit
    \/ AnalyzeTransactionCall \/ ClassifyReturn
    \/ NextTraversal
    \/ IndexRequestAnswered \/ IndexRequestAbandoned \/ IndexReturn
    \/ IndexHandshakeFailed \/ ServerVersion \/ ServerVersionHandshakeFailed
    \/ KycCallStart \/ KycCallLookupFailed \/ KycCallFinish \/ KycPairReturn
    \/ RunTraceJobStart \/ RunTraceJobCompleted \/ RunTraceJobFailed
    \/ CancelJob \/ JobReturn

Spec == Init /\ [][Next]_vars

\* The event loop runs the traversal to its end: while the run has not
\* returned or raised, an iteration that can be taken is eventually taken.
\* What a caller does with the returned result is not scheduled.
FairSpec == Spec /\ WF_vars(pc \notin {"returned", "raised"} /\ Next)

\* the same traversals, also run on the graph wide enough to reach the
\* transaction-count and queue-size caps
CapSpec == CapInit /\ [][Next]_vars

----------------------------------------------------------------------------
(* Properties                                                              *)

TypeOK == pc \in {"start", "loop", "returned", "raised"}

Terminated == pc = "returned" \/ pc = "raised"
LastThreeFailed ==
    /\ Len(lookups) >= MAX_CONSECUTIVE_ELECTRS_FAILURES
    /\ \A i \in (Len(lookups) - 2)..Len(lookups) : lookups[i] = "failed"
Plain == op \in {"forward", "backward"}

\* C1: every traversal (forward, backward, KYC) on a finite transaction
\* graph, cyclic or wide, eventually leaves its loop: it reaches its return
\* statement, unless a collaborator call did not return but raised.
C1_Termination == <>(pc = "returned" \/ pc = "raised")
\* a run over the cyclic graph that came back to an already visited output
\* and returned
C1_Witness ==
    /\ pc = "returned" /\ chain = "cycle" /\ last.act = "skip"
    /\ Cardinality(visited) >= 3

\* C2: in the result of trace_forward and trace_backward no (txid, vout)
\* pair is the key of two nodes.
C2_NoDuplicateNodes ==
    Plain => \A i, j \in DOMAIN nodes :
                (nodes[i].txid = nodes[j].txid /\ nodes[i].vout = nodes[j].vout)
                    => i = j
\* an output queued twice was dequeued a second time and skipped
C2_Witness ==
    /\ Plain /\ last.act = "skip" /\ Len(nodes) >= 3
    /\ \E i \in DOMAIN nodes : nodes[i].txid = last.txid /\ nodes[i].vout = last.vout

\* C3: with max_depth >= 0, every node of a forward or backward result has
\* depth <= max_depth, and an entry whose transaction was fetched had
\* depth <= max_depth.
C3_DepthRespected ==
    (Plain /\ pc # "start" /\ max_depth >= 0) =>
        /\ \A i \in DOMAIN nodes : nodes[i].depth <= max_depth
        /\ last.fetched => last.depth <= max_depth
\* a spent output at depth = max_depth was recorded without being expanded
C3_Witness ==
    /\ Plain /\ max_depth >= 1 /\ pc = "returned"
    /\ \E i \in DOMAIN nodes : nodes[i].depth = max_depth /\ nodes[i].status = "spent"

\* every path the KYC trace holds: those of the destinations and those
\* carried by the queued entries
KycPaths ==
    IF op # "kyc" THEN {}
    ELSE {destinations[i].path : i \in DOMAIN destinations}
            \cup {queue[i].path : i \in DOMAIN queue}

\* C4: on every path of a KYC trace a child's cumulative_confidence is at
\* most 1.1 times its parent's, and every cumulative_confidence is >= 0.001.
C4_ConfidenceBounded ==
    \A p \in KycPaths :
        /\ \A i \in DOMAIN p : p[i].cumulative_confidence >= CONFIDENCE_FLOOR
        /\ \A i \in 2..Len(p) :
              10 * p[i].cumulative_confidence <= 11 * p[i - 1].cumulative_confidence
\* a destination reached through two CoinJoin hops
C4_Witness ==
    /\ op = "kyc"
    /\ \E i \in DOMAIN destinations :
          /\ Len(destinations[i].path) >= 3
          /\ destinations[i].path[2].is_coinjoin
          /\ destinations[i].path[3].is_coinjoin

\* C5: a PathNode below the cold threshold is the last node of its path, its
\* branch is a COLD destination, and the iteration that produced it made no
\* unspent check, no address-index lookup and queued nothing.
BelowCold(n) == n.cumulative_confidence < CONFIDENCE_COLD_THRESHOLD
C5_ColdStops ==
    /\ [](/\ \A i \in DOMAIN queue : op = "kyc" =>
                \A k \in DOMAIN queue[i].path : ~BelowCold(queue[i].path[k])
          /\ \A i \in DOMAIN destinations :
                LET p == destinations[i].path
                IN  /\ \A k \in 1..(Len(p) - 1) : ~BelowCold(p[k])
                    /\ (p # <<>> /\ BelowCold(p[Len(p)]))
                          => destinations[i].trail_status = "cold"
          /\ (op = "kyc" /\ last.act = "cold") => ~last.checked /\ ~last.looked)
    /\ [][(KycHasNode /\ BelowCold(KycNode))
            => (queue' = Rest /\ lookups' = lookups /\ elapsed' = elapsed)]_vars
\* a branch went cold behind a CoinJoin while other entries were still queued
C5_Witness ==
    /\ op = "kyc" /\ last.act = "cold" /\ queue # <<>>
    /\ \E i \in DOMAIN destinations : destinations[i].trail_status = "cold"

\* C6: no exception escapes a traversal when a collaborator call fails.
C6_NoExceptionEscapes == pc # "raised"

\* C7 as stated: when every address-index lookup of a forward trace fails,
\* the spent outputs are SPENT nodes without successor and the warnings
\* hold the 'disabled after N consecutive failures' message.
AllLookupsFailed ==
    /\ op = "forward" /\ pc = "returned"
    /\ lookups # <<>> /\ \A i \in DOMAIN lookups : lookups[i] = "failed"
C7_DisabledWarningWhenAllFail ==
    AllLookupsFailed =>
        /\ \A i \in DOMAIN nodes :
              nodes[i].status = "spent" /\ nodes[i].spent_by_txid = ""
        /\ HasWarning("electrs_disabled")
\* C7 amended: when every lookup fails, exactly one lookup was issued, the
\* start output is the only node, SPENT without successor, there is no edge
\* and no 'disabled' warning; that warning is present exactly when lookups
\* were disabled.
C7_SingleFailureNoWarning ==
    /\ AllLookupsFailed =>
          /\ Len(lookups) = 1 /\ Len(nodes) = 1 /\ edges = <<>>
          /\ nodes[1].status = "spent" /\ nodes[1].spent_by_txid = ""
          /\ nodes[1].txid = args.txid /\ nodes[1].vout = args.vout
          /\ ~HasWarning("electrs_disabled")
    /\ op = "forward" => (HasWarning("electrs_disabled") <=> electrs_disabled)
C7_Witness == AllLookupsFailed /\ Len(nodes) = 1

\* C8: in trace_forward lookups are disabled exactly when the last three
\* lookups failed; once disabled they stay disabled, no lookup is issued any
\* more, and every output found spent afterwards becomes a SPENT node with
\* no spending transaction and no edge.
C8_ForwardBreaker ==
    /\ [](op = "forward" => (electrs_disabled <=> LastThreeFailed))
    /\ [][(op = "forward" /\ electrs_disabled) =>
            /\ electrs_disabled' /\ lookups' = lookups /\ edges' = edges
            /\ (FwdSpent /\ pc' = "loop") =>
                  /\ Len(nodes') = Len(nodes) + 1
                  /\ nodes'[Len(nodes')].status = "spent"
                  /\ nodes'[Len(nodes')].spent_by_txid = ""
                  /\ nodes'[Len(nodes')].txid = Cur.txid
                  /\ nodes'[Len(nodes')].vout = Cur.vout]_vars
\* after a successful lookup three failed in a row, and a later spent
\* output was recorded without lookup
C8_Witness ==
    /\ op = "forward" /\ electrs_disabled
    /\ \E i \in DOMAIN lookups : lookups[i] = "found"
    /\ last.act = "spent" /\ ~last.looked /\ last.depth < max_depth

\* C9: in trace_kyc_withdrawal, once the last three lookups failed no
\* further lookup is issued, and every output the run then finds spent
\* (first visit, not cold, within the depth limit) ends as a LOST destination.
C9_KycBreaker ==
    [][(op = "kyc" /\ LastThreeFailed) =>
         /\ lookups' = lookups
         /\ (KycSpent /\ pc' = "loop") =>
               /\ Len(destinations') = Len(destinations) + 1
               /\ destinations'[Len(destinations')].trail_status = "lost"
               /\ destinations'[Len(destinations')].path = KycPath(KycNode)
               /\ queue' = Rest]_vars
C9_Witness ==
    /\ op = "kyc" /\ LastThreeFailed /\ electrs_disabled
    /\ last.act = "spent" /\ ~last.looked
    /\ Len(destinations) >= 4
    /\ destinations[Len(destinations)].trail_status = "lost"

\* C10: trace_backward honours the wall-clock cap as trace_forward does: a
\* loop iteration that starts after MAX_TRACE_TIME_SECONDS stops the
\* traversal with hit_limit set and a timeout warning.
C10_BackwardTimeout ==
    [][(BwdIter /\ elapsed > MAX_TRACE_TIME_SECONDS) =>
         (pc' = "returned" /\ hit_limit'
          /\ \E i \in DOMAIN warnings' : warnings'[i].kind = "timeout")]_vars

\* C11: whenever trace_forward returns with entries still queued (the
\* transaction cap or the wall-clock cap stopped it), or after an iteration
\* cut the queue at MAX_QUEUE_SIZE, hit_limit is set and a warning names the
\* limit; neither the flag nor a warning is taken back before the next call.
LimitWarned == HasWarning("timeout") \/ HasWarning("transaction_limit")
C11_LimitsReported ==
    [][(op = "forward" /\ session' = session) =>
         /\ (pc = "loop" /\ pc' = "returned" /\ queue' # <<>>) =>
               /\ hit_limit'
               /\ LimitWarned'
               /\ tx_count' >= MAX_TRANSACTIONS_PER_TRACE
                     => HasWarning("transaction_limit")'
               /\ tx_count' < MAX_TRANSACTIONS_PER_TRACE => HasWarning("timeout")'
         /\ (FwdIter /\ Len(queue) > MAX_QUEUE_SIZE) =>
               hit_limit' /\ HasWarning("queue_truncated")'
         /\ hit_limit => hit_limit'
         /\ \A k \in {"timeout", "transaction_limit", "queue_truncated"} :
               HasWarning(k) => HasWarning(k)']_vars
\* returned at the transaction cap, after a truncation, with entries queued
C11_Witness ==
    /\ op = "forward" /\ pc = "returned"
    /\ tx_count = MAX_TRANSACTIONS_PER_TRACE
    /\ Len(queue) > MAX_QUEUE_SIZE - MAX_TRANSACTIONS_PER_TRACE
    /\ HasWarning("queue_truncated") /\ HasWarning("transaction_limit")
    /\ hit_limit
\* returned at the wall-clock cap with entries queued
C11_TimeoutWitness ==
    /\ op = "forward" /\ pc = "returned" /\ queue # <<>>
    /\ tx_count < MAX_TRANSACTIONS_PER_TRACE
    /\ HasWarning("timeout") /\ hit_limit

\* C12: when trace_kyc_withdrawal returns because MAX_TRANSACTIONS outputs
\* were processed while branches are still queued, its warnings name the
\* transaction limit.
C12_KycTransactionLimitWarned ==
    (op = "kyc" /\ pc = "returned" /\ queue # <<>>
       /\ tx_count >= MAX_TRANSACTIONS /\ ~HasWarning("timeout"))
      => \E i \in DOMAIN warnings :
            warnings[i].kind \notin {"electrs_unavailable", "queue_truncated",
                                     "electrs_issues", "electrs_disabled"}


\* C13: when trace_forward returns and the depth limit alone kept a spent
\* output from being explored (the address index was available and never
\* disabled, the output has an address and sits at depth max_depth), the
\* output is among the nodes and the warnings contain 'Depth limit reached'.
C13_DepthLimitWarned ==
    (op = "forward" /\ pc = "returned" /\ electrs /\ ~electrs_disabled
       /\ \E i \in DOMAIN nodes : /\ nodes[i].status = "spent"
                                  /\ nodes[i].depth = max_depth
                                  /\ nodes[i].address # "")
      => HasWarning("depth_limit")

\* C14: when the exchange transaction was fetched and none of its outputs
\* pays destination_address, trace_kyc_withdrawal returns with no probable
\* destination and the 'not found in transaction outputs' warning, having
\* made no gettxout call and no address-index lookup.
NoStartOutput ==
    /\ op = "kyc" /\ pc = "returned" /\ args.txid \in tx_cache
    /\ \A i \in DOMAIN Chain.txs[args.txid].vout :
          Chain.txs[args.txid].vout[i].address # args.address
C14_NoOutputNoTrace ==
    NoStartOutput =>
       /\ destinations = <<>>
       /\ HasWarning("destination_not_found")
       /\ lookups = <<>>
       /\ last = NoLast
       /\ tx_count = 0 /\ visited = {} /\ queue = <<>>
C14_Witness ==
    /\ NoStartOutput /\ HasWarning("destination_not_found")
    /\ Chain.txs[args.txid].vout # <<>> /\ args.address # ""

\* C15: the overall privacy score does not depend on the number of CoinJoins
\* alone: for a returned KYC result without COLD destination, the score
\* computed with any other coinjoins_encountered (one count for each branch
\* of the CoinJoin term) is the score it received.
NoColdDestination ==
    \A i \in DOMAIN destinations : destinations[i].trail_status # "cold"
C15_ScoreIgnoresCoinjoinCount ==
    (op = "kyc" /\ pc = "returned" /\ destinations # <<>> /\ NoColdDestination)
      => \A k \in {0, 1, 2} :
            CalculateOverallPrivacy(destinations, start_value, k)
               = overall_privacy_score

\* C16: in every result of trace_kyc_withdrawal the values of the COLD
\* destinations sum to at most original_value_sats, and so do the values of
\* the LOST destinations (the cold-trail component is then at most 50 points
\* and the lost-trail penalty at most 10).
C16_TrailValuesBounded ==
    (op = "kyc" /\ pc = "returned" /\ start_value > 0) =>
       /\ SumStatus(destinations, "cold", 1) <= start_value
       /\ SumStatus(destinations, "lost", 1) <= start_value
       /\ (SumStatus(destinations, "cold", 1) * 500) \div start_value <= 500
       /\ (SumStatus(destinations, "lost", 1) * 100) \div start_value <= 100

\* C17: in trace_backward every coinbase transaction that the call fetched has
\* exactly one node, of status COINBASE, which is listed once in
\* coinbase_origins, and no edge leads into it; the iteration that meets it
\* adds no edge and queues nothing.
CoinbaseReached ==
    {t \in tx_cache \ session.inherited : \E i \in DOMAIN Chain.txs[t].vin : Chain.txs[t].vin[i].coinbase}
CoinbaseRecorded ==
    \A t \in CoinbaseReached :
       /\ Cardinality({i \in DOMAIN nodes : nodes[i].txid = t}) = 1
       /\ \A i \in DOMAIN nodes : nodes[i].txid = t => nodes[i].status = "coinbase"
       /\ Cardinality({i \in DOMAIN coinbase_origins :
                          /\ coinbase_origins[i].txid = t
                          /\ \E j \in DOMAIN nodes : nodes[j] = coinbase_origins[i]}) = 1
       /\ \A i \in DOMAIN edges : edges[i].to_txid # t
C17_CoinbaseStops ==
    [][op = "backward" =>
         /\ CoinbaseRecorded'
         /\ (pc = "loop" /\ tx_count' = tx_count + 1 /\ Cur.txid \in CoinbaseReached')
               => (edges' = edges /\ queue' = Rest)]_vars
C17_Witness ==
    /\ op = "backward" /\ last.act = "coinbase" /\ last.depth > 0
    /\ CoinbaseReached # {} /\ Len(coinbase_origins) = 1
    /\ edges # <<>>

\* The number of transactions of the spend-down that starts at the traced
\* output, read from the chain itself: each spends the larger of the two
\* outputs of the one before, the other output pays a positive amount, and
\* the last one's larger output is unspent
\* (-1 when the transactions below the output are not of that shape).
RECURSIVE SpendDownLength(_, _, _)
SpendDownLength(txid, vout, fuel) ==
    LET S == {t \in DOMAIN Chain.txs : Spends(t, txid, vout)}
        t == CHOOSE x \in S : TRUE
        o == Chain.txs[t].vout
        rest == SpendDownLength(t, IF o[1].value > o[2].value THEN 0 ELSE 1,
                                fuel - 1)
    IN  IF S = {} THEN (IF <<txid, vout>> \in Chain.unspent THEN 0 ELSE -1)
        ELSE IF fuel = 0 \/ Cardinality(S) # 1 \/ Len(o) # 2 THEN -1
        ELSE IF o[1].value = o[2].value \/ rest < 0 THEN -1
        ELSE IF o[1].value = 0 \/ o[2].value = 0 THEN -1
        ELSE 1 + rest
\* the trace followed the chain: nothing was cut, every lookup answered and
\* every spending transaction it named was fetched
TraceComplete ==
    /\ pc = "returned" /\ ~hit_limit
    /\ \A i \in DOMAIN lookups : lookups[i] = "found"
    /\ Len(edges) = Len(lookups)
    /\ ~HasWarning("tx_not_found") /\ ~HasWarning("electrs_unavailable")
PeelPremise ==
    /\ op = "forward" /\ peeling.done /\ TraceComplete
    /\ KnownTx(args.txid) /\ args.vout < Len(Chain.txs[args.txid].vout)
    /\ SpendDownLength(args.txid, args.vout, PEEL_SAFETY_LIMIT) >= 3
    /\ SpendDownLength(args.txid, args.vout, PEEL_SAFETY_LIMIT)
          <= Min(max_depth, PEEL_SAFETY_LIMIT)

\* C18: for a forward trace that followed a spend-down of N transactions
\* (3 <= N <= max_depth, N <= 20), each with a payment output and a larger
\* change output spent by the next, detect_peeling_chain returns
\* is_peeling_chain = true, confidence >= 0.6 and chain_length = N.
C18_PeelingDetected ==
    PeelPremise =>
       /\ ~peeling.raised
       /\ peeling.is_peeling_chain
       /\ peeling.confidence >= 600
       /\ peeling.chain_length = SpendDownLength(args.txid, args.vout,
                                                 PEEL_SAFETY_LIMIT)
C18_Witness ==
    /\ PeelPremise /\ peeling.chain_length = 5 /\ peeling.is_peeling_chain
    /\ peeling.total_peeled_sats = 500000 /\ peeling.remaining_sats = 500000
C18_ShortWitness ==
    /\ PeelPremise /\ peeling.chain_length = 3 /\ max_depth = 3
C18_LongWitness ==
    /\ PeelPremise /\ peeling.chain_length = PEEL_SAFETY_LIMIT
    /\ max_depth = PEEL_SAFETY_LIMIT

\* C19: the call of detect_peeling_chain leaves the TraceResult as it was:
\* nodes (content and order), edges, endpoint lists, CoinJoin ids, counters,
\* warnings and the limit flag are the same after the call as before.
C19_DetectorReadsOnly ==
    [][(~peeling.done /\ peeling'.done) =>
         /\ nodes' = nodes /\ edges' = edges
         /\ unspent_endpoints' = unspent_endpoints
         /\ coinbase_origins' = coinbase_origins
         /\ coinjoin_txids' = coinjoin_txids
         /\ tx_count' = tx_count
         /\ total_value_traced_sats' = total_value_traced_sats
         /\ warnings' = warnings /\ hit_limit' = hit_limit]_vars
\* the detector walked a trace whose nodes are not in order of value
C19_Witness ==
    /\ peeling.done /\ peeling.chain_length >= 3
    /\ \E i, j \in DOMAIN nodes : i < j /\ nodes[i].value_sats > nodes[j].value_sats
    /\ warnings # <<>>

\* C20: when the seed address is in the exchange registry,
\* analyze_exchange_proximity returns hops_to_exchange = 0,
\* path_quality_score = 100 and path_strength = STRONG, and it has issued no
\* address-history, transaction or block-height query.
C20_ExchangeSeed ==
    (op = "proximity" /\ pc = "returned"
       /\ args.address \in DOMAIN KNOWN_EXCHANGE_ADDRESSES)
      => /\ prox.result.hops_to_exchange = 0
         /\ prox.result.path_quality_score = 100
         /\ prox.result.path_strength = "STRONG"
         /\ prox.queries = [history |-> 0, tx |-> 0, height |-> 0]
         /\ queue = <<>> /\ visited = {}
C20_Witness ==
    /\ op = "proximity" /\ pc = "returned" /\ args.address = "ex2"
    /\ prox.result.nearest_exchange = "Coinbase"
    /\ prox.result.direction = "is_exchange"
\* a seed two hops behind a CoinJoin from an exchange, found by the search
C20_SearchWitness ==
    /\ op = "proximity" /\ pc = "returned" /\ args.address = "u3"
    /\ prox.result.hops_to_exchange = 2
    /\ prox.result.path_quality_score = 70
    /\ prox.result.path_strength = "MODERATE"
    /\ prox.queries.tx > 0 /\ prox.queries.history > 0

----------------------------------------------------------------------------
\* C21: analyze_exchange_proximity does not stop at the first exchange it
\* finds: the search returns only when its queue is empty, when
\* MAX_ADDRESSES_TO_VISIT addresses were visited or when it timed out; and
\* no run visits (asks the history of) more than MAX_ADDRESSES_TO_VISIT
\* addresses.
C21_SearchContinues ==
    /\ prox.addresses_checked <= MAX_ADDRESSES_TO_VISIT
    /\ prox.queries.history <= MAX_ADDRESSES_TO_VISIT
    /\ (op = "proximity" /\ pc = "returned") =>
          \/ queue = <<>>
          \/ prox.addresses_checked >= MAX_ADDRESSES_TO_VISIT
          \/ HasWarning("timeout")

\* a search that recorded an exchange one hop away went on and recorded
\* another one, further away, before it returned with an empty queue
C21_Witness ==
    /\ op = "proximity" /\ pc = "returned" /\ queue = <<>>
    /\ ~HasWarning("timeout")
    /\ \E i, j \in DOMAIN prox.all_paths_found :
          /\ i < j
          /\ prox.all_paths_found[i].hops = 1
          /\ prox.all_paths_found[j].hops > 1

\* a search that recorded an exchange and was then stopped by the address
\* limit, with addresses still queued
C21_LimitWitness ==
    /\ op = "proximity" /\ pc = "returned" /\ queue # <<>>
    /\ prox.all_paths_found # <<>>
    /\ prox.addresses_checked = MAX_ADDRESSES_TO_VISIT
    /\ prox.queries.history = MAX_ADDRESSES_TO_VISIT
    /\ HasWarning("address_limit")

----------------------------------------------------------------------------
FirstStrong(results, i) ==
    /\ results[i].r.score >= 70
    /\ \A k \in 1..(i - 1) : results[k].r.score < 70
C23_FirstStrongMatchWins ==
    \A c \in DOMAIN detector.calls :
        LET results == DetectorResults(detector.config,
                          TransactionStats(DetectorInput(detector.calls[c].tx)))
        IN  \A i \in DOMAIN results :
                FirstStrong(results, i) =>
                    detector.calls[c].protocol = results[i].protocol

\* C24: a hop of a KYC trace is flagged as a CoinJoin exactly when the
\* CoinJoin detector scores its transaction at 0.7 or more.
C24_KycAgreesWithClassifier ==
    op = "kyc" =>
        \A path \in KycPaths : \A i \in DOMAIN path :
            path[i].is_coinjoin <=>
                AnalyzeTransaction(detector.config, <<>>,
                                   Chain.txs[path[i].txid]).score >= 70

\* C25: the transaction cache is scoped to one traversal: no call of
\* trace_forward, trace_backward or trace_kyc_withdrawal is served a record
\* that an earlier call put into the cache.
C25_CachePerTraversal ==
    ~(/\ last.fetched /\ last.act # "tx_not_found"
      /\ last.txid \in session.inherited)

\* C26: whenever a caller-side timeout abandons an address-index request in
\* flight, the connection is dropped before the next request is sent, so
\* every answered request reads the response to itself.
C26_NoStaleResponse ==
    \A i \in DOMAIN fulcrum.log :
        fulcrum.log[i].outcome = "answered" =>
            fulcrum.log[i].read = fulcrum.log[i].id

\* C27: in trace_forward and trace_backward an entry is never taken from a
\* queue of more than MAX_QUEUE_SIZE entries: a longer queue is first cut to
\* its first MAX_QUEUE_SIZE entries, hit_limit is set and a warning is
\* recorded.
Dequeues ==
    /\ op \in {"forward", "backward"} /\ pc = "loop" /\ pc' # "returned"
    /\ queue' # queue
C27_QueueCut ==
    [][(Dequeues /\ Len(queue) > MAX_QUEUE_SIZE) =>
          /\ last'.txid = queue[1].txid
          /\ Len(queue') >= MAX_QUEUE_SIZE - 1
          /\ SubSeq(queue', 1, MAX_QUEUE_SIZE - 1) = SubSeq(queue, 2, MAX_QUEUE_SIZE)
          /\ \A i \in MAX_QUEUE_SIZE..Len(queue') : queue'[i].depth = last'.depth + 1
          /\ hit_limit'
          /\ HasWarning("queue_truncated")']_vars

\* a forward trace has taken an entry from a queue that was cut
C27_Witness ==
    /\ op = "forward" /\ pc = "loop" /\ hit_limit
    /\ HasWarning("queue_truncated")
    /\ Len(queue) = MAX_QUEUE_SIZE - 1
\* the same in a backward trace
C27_BackwardWitness ==
    /\ op = "backward" /\ pc = "loop" /\ hit_limit
    /\ HasWarning("queue_truncated")
    /\ Len(queue) = MAX_QUEUE_SIZE - 1

\* C28: every non-coinbase transaction that trace_backward records as a
\* SPENT node, at whatever depth, has exactly one edge per input in the
\* result, from (previous txid, previous vout) to that transaction.
EdgesInto(txid) ==
    SelectSeq(edges, LAMBDA e : e.to_txid = txid)
C28_OneEdgePerInput ==
    (op = "backward" /\ pc = "returned") =>
        \A n \in DOMAIN nodes :
            nodes[n].status = "spent" =>
                LET tx == Chain.txs[nodes[n].txid]
                    into == EdgesInto(nodes[n].txid)
                IN  /\ Len(into) = Len(tx.vin)
                    /\ \A i \in DOMAIN tx.vin :
                          /\ into[i].from_txid = tx.vin[i].txid
                          /\ into[i].from_vout = tx.vin[i].vout

\* C29: in trace_forward every spent output whose lookup failed becomes a
\* SPENT node with no spending transaction and no outgoing edge, and from
\* the first failed lookup on the warnings of the run tell of the failure.
LookupFails == op = "forward" /\ pc = "loop" /\ lookups' = Append(lookups, "failed")
DeadBranchRecorded ==
    /\ edges' = edges
    /\ nodes' = Append(nodes, [nodes'[Len(nodes')] EXCEPT
                                  !.txid = Cur.txid, !.vout = Cur.vout,
                                  !.status = "spent", !.spent_by_txid = "",
                                  !.spent_by_vin = -1])
C29_FailureWarned ==
    /\ [][LookupFails => DeadBranchRecorded]_vars
    /\ []((op = "forward" /\ \E i \in DOMAIN lookups : lookups[i] = "failed")
             => HasWarning("electrs_disabled"))
\* the part of C29 about the node and the edges alone
C29_DeadBranch == [][LookupFails => DeadBranchRecorded]_vars

\* C30: in trace_forward, unspent_endpoints is the list of the UNSPENT nodes,
\* no edge starts at an UNSPENT node, and every edge starts at an output
\* that is a SPENT node whose spent_by_txid is the edge's to_txid.
UnspentNodes == SelectSeq(nodes, LAMBDA n : n.status = "unspent")
NodesAt(txid, vout) ==
    {n \in DOMAIN nodes : nodes[n].txid = txid /\ nodes[n].vout = vout}
C30_ForwardGraph ==
    op = "forward" =>
        /\ unspent_endpoints = UnspentNodes
        /\ \A e \in DOMAIN edges :
              /\ \A n \in NodesAt(edges[e].from_txid, edges[e].from_vout) :
                    nodes[n].status # "unspent"
              /\ \E n \in NodesAt(edges[e].from_txid, edges[e].from_vout) :
                    /\ nodes[n].status = "spent"
                    /\ nodes[n].spent_by_txid = edges[e].to_txid
\* a returned forward trace with edges, spent nodes and unspent endpoints
C30_Witness ==
    /\ op = "forward" /\ pc = "returned"
    /\ Len(edges) >= 2 /\ Len(unspent_endpoints) >= 2
    /\ \E n \in DOMAIN nodes : nodes[n].status = "spent" /\ nodes[n].spent_by_txid = ""

\* C31: for a chain of three or more transactions the confidence of
\* detect_peeling_chain is min(0.95, 0.5 + length bonus + similarity bonus
\* + 0.1), the similarity bonus being 0.2 when at least 70% of the payments
\* lie within 50% of their average, 0.1 when at least 50% do, 0 otherwise
\* (in thousandths).
PeelPayments ==
    PeelWalk(nodes, edges, <<args.txid, IF op = "forward" THEN args.vout ELSE 0>>,
             {}, <<>>, <<>>).payments
SimilarityBonusInclusive(payments) ==
    IF 10 * SimilarPayments(payments) >= 7 * Len(payments) THEN 200
    ELSE IF 2 * SimilarPayments(payments) >= Len(payments) THEN 100
    ELSE 0
C31_ConfidenceInclusive ==
    (/\ op \in {"forward", "backward"} /\ peeling.done
     /\ ~peeling.raised /\ peeling.chain_length >= 3) =>
        peeling.confidence =
            Min(950, 500 + (IF peeling.chain_length >= 5 THEN 200 ELSE 100)
                         + SimilarityBonusInclusive(PeelPayments) + 100)

\* C34: whenever detect_peeling_chain has followed three or more
\* transactions it returns is_peeling_chain = true, confidence >= 0.7 and
\* impact "high" or "critical", whatever the payments are.
PeelFollowedThree ==
    /\ op \in {"forward", "backward"} /\ peeling.done
    /\ Len(PeelWalk(nodes, edges,
                    <<args.txid, IF op = "forward" THEN args.vout ELSE 0>>,
                    {}, <<>>, <<>>).chain_txids) >= 3
C34_AlwaysFlagged ==
    PeelFollowedThree =>
        /\ ~peeling.raised
        /\ peeling.is_peeling_chain
        /\ peeling.confidence >= 700
        /\ peeling.privacy_impact \in {"high", "critical"}
\* the same for the calls that return
C34_FlaggedWhenReturned ==
    (PeelFollowedThree /\ ~peeling.raised) =>
        /\ peeling.is_peeling_chain
        /\ peeling.confidence >= 700
        /\ peeling.privacy_impact \in {"high", "critical"}
C34_ReturnedWitness ==
    /\ PeelFollowedThree /\ ~peeling.raised
    /\ peeling.confidence = 700 /\ peeling.privacy_impact = "high"

\* C32: every ProbableDestination of a KYC trace carries the address and the
\* value of the last PathNode of its path, path_length is the length of
\* that path, and no two destinations end on the same (txid, vout).
PathEnd(d) == d.path[Len(d.path)]
EndsOnItsPath(d) ==
    /\ d.path # <<>>
    /\ d.address = (IF PathEnd(d).address = "" THEN "unknown" ELSE PathEnd(d).address)
    /\ d.value_sats = PathEnd(d).value_sats
    /\ d.path_length = Len(d.path)
C32_DestinationIsPathEnd ==
    op = "kyc" =>
        \A i \in DOMAIN destinations :
            /\ EndsOnItsPath(destinations[i])
            /\ \A j \in DOMAIN destinations :
                  (/\ PathEnd(destinations[j]).txid = PathEnd(destinations[i]).txid
                   /\ PathEnd(destinations[j]).vout = PathEnd(destinations[i]).vout)
                      => j = i
\* the same for the destinations that did not stop at the depth limit
C32_ExceptDepthLimit ==
    op = "kyc" =>
        \A i \in DOMAIN destinations :
            destinations[i].trail_status # "depth_limit" =>
                /\ EndsOnItsPath(destinations[i])
                /\ \A j \in DOMAIN destinations :
                      (/\ destinations[j].trail_status # "depth_limit"
                       /\ PathEnd(destinations[j]).txid = PathEnd(destinations[i]).txid
                       /\ PathEnd(destinations[j]).vout = PathEnd(destinations[i]).vout)
                          => j = i

\* C35: the confidence_level of every ProbableDestination of a KYC trace is
\* the level that the thresholds (0.7 high, 0.4 medium, 0.2 low, below that
\* negligible) give to its confidence_score.
LevelOfScore(score) ==
    CASE score >= (7 * CONF_ONE) \div 10 -> "high"
      [] score < (7 * CONF_ONE) \div 10 /\ score >= (4 * CONF_ONE) \div 10 -> "medium"
      [] score < (4 * CONF_ONE) \div 10 /\ score >= (2 * CONF_ONE) \div 10 -> "low"
      [] OTHER -> "negligible"
C35_LevelMatchesScore ==
    op = "kyc" =>
        \A i \in DOMAIN destinations :
            destinations[i].confidence_level = LevelOfScore(destinations[i].confidence_score)
\* the same for every destination but those of a failed lookup
C35_ExceptFailedLookup ==
    op = "kyc" =>
        \A i \in DOMAIN destinations :
            (destinations[i].trail_status = "lost" /\ electrs /\ destinations[i].address # "unknown")
            \/ destinations[i].confidence_level = LevelOfScore(destinations[i].confidence_score)

\* C33: on every connection the client opens, server.version is the first
\* request written and is written only once.
C33_HandshakeOncePerConnection ==
    \A i \in DOMAIN fulcrum.wire :
        (fulcrum.wire[i].method = "server.version")
            <=> (i = 1 \/ fulcrum.wire[i - 1].conn # fulcrum.wire[i].conn)
\* the same as long as no handshake of server_version() has failed
C33_WithoutFailedServerVersion ==
    (\A k \in DOMAIN fulcrum.log : fulcrum.log[k].outcome # "version_failed") =>
        \A i \in DOMAIN fulcrum.wire :
            (fulcrum.wire[i].method = "server.version")
                <=> (i = 1 \/ fulcrum.wire[i - 1].conn # fulcrum.wire[i].conn)
C33_ReconnectWitness ==
    /\ \E k \in DOMAIN fulcrum.log : fulcrum.log[k].outcome = "handshake_failed"
    /\ \E k \in DOMAIN fulcrum.log : fulcrum.log[k].outcome = "abandoned"
    /\ fulcrum.conn = 3 /\ Len(fulcrum.wire) >= 4

\* C36: when two trace_kyc_withdrawal calls run concurrently on the shared
\* KYC tracer, the 'N lookup(s) failed' warning of each result counts the
\* failed lookups of that call and no others.
C36_FailuresPerCall ==
    op = "kyc_pair" =>
        \A c \in KycCallers :
            kyc_calls.call[c].pc = "returned" =>
                kyc_calls.call[c].reported = kyc_calls.call[c].failed
\* the same for calls that do not overlap in time
C36_WhenNotOverlapped ==
    (op = "kyc_pair" /\ ~kyc_calls.overlapped) =>
        \A c \in KycCallers :
            kyc_calls.call[c].pc = "returned" =>
                kyc_calls.call[c].reported = kyc_calls.call[c].failed
C36_SequentialWitness ==
    /\ op = "kyc_pair" /\ pc = "returned" /\ ~kyc_calls.overlapped
    /\ \A c \in KycCallers : kyc_calls.call[c].reported = MaxFailedLookups

\* C37: once trace_kyc_withdrawal has located the seed output, a trace that
\* was cut by the wall-clock timeout does not return without destinations
\* and rated "good" with overall_privacy_score 100.
SeedLocated ==
    /\ op = "kyc" /\ pc = "returned"
    /\ ~HasWarning("tx_not_found") /\ ~HasWarning("destination_not_found")
C37_NoGoodRatingWhenCut ==
    (SeedLocated /\ HasWarning("timeout")) =>
        \/ destinations # <<>>
        \/ ~(privacy_rating = "good" /\ overall_privacy_score = 1000)

\* C38: once a job's status is "cancelled" it does not change again,
\* whether the background task had started or not.
C38_CancelledIsFinal ==
    [][job.status = "cancelled" => job'.status = "cancelled"]_vars

====
